---- MODULE Spec2Model ----
(***************************************************************************)
(* A model of scripts/jarvis-voice.py: the conversation memory, the       *)
(* three-stage streaming pipeline (fetch & segment, synthesize, play),     *)
(* its interrupt() call, the push-to-talk handler and the daemon's main    *)
(* loop with its state machine.                                            *)
(*                                                                         *)
(* Twelve specifications share the variables:                              *)
(*   Spec       the daemon: main loop, push-to-talk listener thread and    *)
(*              the stage threads of every pipeline run, the history file  *)
(*              being writable;                                            *)
(*   SpecTurns  the daemon over consecutive ordinary turns that nobody     *)
(*              interrupts, where only playback may outlast a join;        *)
(*   SpecMem    the four memory operations applied to a history that was   *)
(*              reloaded from the durable store;                           *)
(*   SpecPairs  user/assistant pairs appended alternately to an empty      *)
(*              memory;                                                    *)
(*   SpecMessages  get_messages and the start of a turn, over the memory   *)
(*              operations;                                                *)
(*   SpecUtterances  the memory of a daemon started without a history,     *)
(*              utterance by utterance: turns of every outcome and voice   *)
(*              commands;                                                  *)
(*   SpecProviders  one uninterrupted turn of the daemon under every       *)
(*              llm-providers.json of a bounded size, each provider of     *)
(*              the fallback chain free to fail or to answer;              *)
(*   SpecRoute  the token loop of one provider stream, character by        *)
(*              character, with route detection and sentence emission;     *)
(*   SpecSplit  split_into_sentences applied to a set of texts;            *)
(*   SpecInterrupt  one turn of the daemon with presses during it, under   *)
(*              the scheduling the threads get;                            *)
(*   SpecLoop   the main loop statement by statement, with SIGINT/SIGTERM  *)
(*              and an exception possible at every statement of a turn;    *)
(*   SpecCapture  listen_for_speech frame by frame, with a microphone      *)
(*              error or a shutdown possible at every frame.               *)
(***************************************************************************)
EXTENDS Integers, Sequences, FiniteSets, TLC

\* ------------------------------------------------------------------ bounds
\* conversation.maxTurns of the configuration (20 by default), scaled down
MAX_TURNS == 2
\* how many turns beyond 2*MAX_TURNS a reloaded history file may hold
StoreExtra == 2
\* memory operations applied after start-up in SpecMem
MaxOps == 3
\* pairs appended beyond MAX_TURNS in SpecPairs
PairsExtra == 1
\* distinct utterance texts in SpecPairs
NumTexts == 2

VARIABLES
    \* ConversationMemory
    turns,          \* ConversationMemory.turns
    store,          \* the "turns" of the history file on disk
    writable,       \* whether a write of the history file succeeds
    \* JarvisVoice
    state,          \* JarvisVoice.state
    mpc,            \* where the main thread is in JarvisVoice.run
    pttEvent,       \* JarvisVoice._ptt_event
    ipc,            \* where the hotkey listener thread is in _on_ptt_pressed
    response,       \* _handle_turn's local: the value pipeline.run returned
    agent_response, \* _handle_routing's local: what send_to_agent returned
    \* StreamingPipeline
    cancel,         \* StreamingPipeline.cancel
    sq,             \* StreamingPipeline.sentence_queue
    aq,             \* StreamingPipeline.audio_queue
    full_response,  \* StreamingPipeline.full_response
    run,            \* how many times StreamingPipeline.run was entered
    pcA, pcB, pcC,  \* per run: where its three stage threads are
    nA,             \* per run: sentences Stage A has emitted
    heldB, heldC,   \* per run: the item Stage B / Stage C holds
    \* ghosts
    hist,           \* every Turn appended so far (SpecPairs), in order
    ops,            \* memory operations applied so far (SpecMem)
    memop,          \* the last memory operation and the turns it found (SpecMem)
    presses,        \* push-to-talk presses so far
    ptt,            \* what the presses since RECORDING was entered did:
                    \* "none", "ignored", "received" (read SPEAKING),
                    \* "flagged" (its interrupt() has set the flag)
    emitted,        \* sentences the current run's Stage A put on sentence_queue
    played,         \* buffers whose playback started since the current run began
    failed,         \* sentences whose synthesis failed
    clean,          \* no step of interrupt() since the current run began
    nInt,           \* per run: how often interrupt() set the flag during it
    dead,           \* buffers queued at, or put by an interrupted run after, that moment
    \* the fallback chain
    chain,          \* CLOUD_FALLBACKS
    prov,           \* per run: the provider Stage A is at, 0 for Ollama,
                    \* i for chain[i]
    attempts,       \* ghost: the providers the current run's Stage A tried, in
                    \* order: provider id, sentences it emitted, how it ended
    puts,           \* ghost: every item the current run's Stage A put on
                    \* sentence_queue, in order
    \* the token loop of _try_ollama_stream / _try_cloud_stream, as characters
    reply,          \* the text the provider streams
    width,          \* how many characters each of its fragments holds
    fed,            \* characters of the reply received so far
    token_buffer,   \* the local token_buffer
    route_check_done, \* the local route_check_done
    tpc,            \* "stream", "returned" (run() is back), "handled"
    textq,          \* what was put on sentence_queue, in order
    full_text,      \* StreamingPipeline.full_response
    routing,        \* the arguments _handle_turn passes to _handle_routing
    \* split_into_sentences
    split_text,     \* its argument
    split_result,   \* what it returned
    split_done,     \* whether it has been applied
    \* the main loop
    running,        \* JarvisVoice.running
    events,         \* ghost: what the main thread said through speak_simple,
                    \* asked of a specialist and wrote to memory for it since
                    \* RECORDING was entered, in order
    \* listen_for_speech
    heard,          \* ghost: is_speech of every frame read, in order
    frames,         \* frames, each frame being its position in heard
    silent_frames,  \* silent_frames
    speech_detected, \* speech_detected
    cpc,            \* "loop" (reading frames), "after" (the loop is left),
                    \* "done" (returned), "aborted" (returned None from
                    \* inside the loop)
    audio           \* what it returned: "none" (None), "utterance"

memVars == <<turns, store, writable, hist, ops, memop>>
mainVars == <<state, mpc, pttEvent, response, agent_response>>
listenerVars == <<ipc, presses, ptt>>
pipeVars == <<cancel, sq, aq, full_response, run>>
stageVars == <<pcA, pcB, pcC, nA, heldB, heldC>>
ghostVars == <<emitted, played, failed, clean, nInt, dead>>
provVars == <<chain, prov, attempts, puts>>
loopVars == <<running, events>>
capVars == <<heard, frames, silent_frames, speech_detected, cpc, audio>>
daemonVars == <<mainVars, listenerVars, pipeVars, stageVars, ghostVars, provVars,
                loopVars, capVars>>
textVars == <<reply, width, fed, token_buffer, route_check_done, tpc,
              textq, full_text, routing, split_text, split_result, split_done>>
vars == <<memVars, daemonVars, textVars>>

\* ============================================================ texts
\* A text is a sequence of tokens; a token is a pair <<origin, index>>.
\* Origin 0 marks what the user said.
UserText(i) == << <<0, i>> >>
Texts == { UserText(i) : i \in 1..NumTexts }

\* ============================================================ memory
Turn(role, content) == [role |-> role, content |-> content]

Last(s) == s[Len(s)]
Front(s) == SubSeq(s, 1, Len(s) - 1)

\* no memory operation yet
NoOp == [op |-> "none", before |-> << >>]

\* a plausible slip: the window is taken from the head, not the tail
trim_keepsHead(ts) ==
    IF Len(ts) > MAX_TURNS * 2 THEN SubSeq(ts, 1, MAX_TURNS * 2) ELSE ts

\* _trim: keep only the last max_turns * 2 messages
trim(ts) ==
    LET max_messages == MAX_TURNS * 2
    IN  IF Len(ts) > max_messages
        THEN SubSeq(ts, Len(ts) - max_messages + 1, Len(ts))
        ELSE ts

add_user(ts, text) == trim(Append(ts, Turn("user", text)))

\* a plausible slip: the reply is recorded by the callee and by the caller
add_assistant_twice(ts, text) ==
    trim(Append(Append(ts, Turn("assistant", text)), Turn("assistant", text)))

add_assistant(ts, text) == trim(Append(ts, Turn("assistant", text)))

\* a plausible slip: the history is left as it is
clear_keepsTurns(ts) == ts

clear(ts) == << >>

\* a plausible slip: the second check is an elif of the first
forget_last_elif(ts) ==
    IF ts # << >> /\ Last(ts).role = "assistant" THEN Front(ts)
    ELSE IF ts # << >> /\ Last(ts).role = "user" THEN Front(ts)
    ELSE ts

forget_last(ts) ==
    LET a == IF ts # << >> /\ Last(ts).role = "assistant" THEN Front(ts) ELSE ts
    IN  IF a # << >> /\ Last(a).role = "user" THEN Front(a) ELSE a

\* _save: the document that json.dumps writes for the turns
history_document(ts) == [lastUpdated |-> "now", turns |-> ts]

\* _load: data.get("turns", []) of the document read
load(data) == IF "turns" \in DOMAIN data THEN data.turns ELSE << >>

\* a plausible slip: the mutator does not call _save
save_never(ts, old, ok) == old

\* _save: the file is rewritten with the turns, unless the write fails
\* (the exception is logged and swallowed)
save(ts, old, ok) == IF ok THEN ts ELSE old

\* what _load may find in the history file: any document a previous daemon
\* process wrote, possibly under a larger conversation.maxTurns
RECURSIVE RoleSeqs(_)
RoleSeqs(n) ==
    IF n = 0 THEN { << >> }
    ELSE LET shorter == RoleSeqs(n - 1)
         IN  shorter \cup
             { Append(s, Turn(r, UserText(1))) :
                   s \in { t \in shorter : Len(t) = n - 1 },
                   r \in {"user", "assistant"} }

LoadedStores == RoleSeqs(2 * MAX_TURNS + StoreExtra)

\* ============================================================ pipeline items
\* Bounds of the daemon model
\* turns that reach the streaming pipeline in Spec
MaxRuns == 1
\* turns that reach the streaming pipeline in SpecTurns
TurnRuns == 2
\* sentences in one reply
NumSent == 2
\* push-to-talk presses
MaxPress == 3

Runs == 1..(IF TurnRuns > MaxRuns THEN TurnRuns ELSE MaxRuns)

\* the poison pill (None) that ends a stream
END == <<0, 0>>
\* sentence k of the reply streamed in run r; its audio buffer is the same pair
Sentence(r, k) == <<r, k>>
\* "__ROUTE__:<agent>:<query>", the routing sentinel
ROUTE(r) == <<r, -1>>
\* "I can't reach any of my thinking engines right now."
APOLOGY(r) == <<r, -2>>
\* b"__SKIP__", what Stage B forwards when TTS is disabled
SKIP == <<0, -3>>
\* full_response = "[ROUTE:<agent>] <query>"
RouteText == << <<0, -1>> >>
\* full_response = "[error: all providers unreachable]"
ErrorText == << <<0, -2>> >>
\* nothing held
NONE == <<0, -9>>

IsRoute(item) == item[1] # 0 /\ item[2] = -1
IsSpeech(item) == item[1] # 0 /\ item[2] # -1

\* StreamingPipeline(tts_enabled=True), the constructor's default
tts_enabled == TRUE

JoinPcs == {"joinA", "joinB", "joinC"}

Alive(r) == pcA[r] # "done" \/ pcB[r] # "done" \/ pcC[r] # "done"

SeqRange(s) == { s[i] : i \in 1..Len(s) }

\* the runs during which interrupt() set the cancel flag
Interrupted == { r \in Runs : nInt[r] > 0 }

\* ============================================================ providers
\* the provider tried after the one at position p of the chain
\* a plausible slip: the same provider is tried again
next_provider_same(p) == p

\* _stream_from_ollama: "for provider in CLOUD_FALLBACKS"
next_provider(p) == p + 1

\* _try_cloud_stream: a provider whose "compatible" is "google" gets no
\* request; Ollama and the OpenAI-compatible ones do
Streams(p) == IF p = 0 THEN TRUE ELSE chain[p].compatible # "google"

\* the id of the provider at position p, 0 for Ollama
ProviderId(p) == IF p = 0 THEN 0 ELSE chain[p].id

\* _try_ollama_stream / _try_cloud_stream is called for the provider at
\* position p
Request(p) == [id |-> ProviderId(p), sent |-> 0, result |-> "open"]

\* the attempt in progress ends with result res
Ended(log, res) ==
    IF log # << >> /\ Last(log).result = "open"
    THEN [log EXCEPT ![Len(log)].result = res]
    ELSE log

\* the attempt in progress emitted one more sentence
Counted(log) ==
    IF log # << >> /\ Last(log).result = "open"
    THEN [log EXCEPT ![Len(log)].sent = @ + 1]
    ELSE log

\* ============================================================ characters
\* A string is the sequence of its characters.
Whitespace == {" ", "\n", "\t"}
Digits == {"0", "1", "2", "3", "4", "5", "6", "7", "8", "9"}
LowerCase ==
    { "a", "b", "c", "d", "e", "f", "g", "h", "i", "j", "k", "l", "m", "n",
    "o", "p", "q", "r", "s", "t", "u", "v", "w", "x", "y", "z" }
UpperCase ==
    { "A", "B", "C", "D", "E", "F", "G", "H", "I", "J", "K", "L", "M", "N",
    "O", "P", "Q", "R", "S", "T", "U", "V", "W", "X", "Y", "Z" }
\* \w of the two route patterns
WordChars == LowerCase \cup UpperCase \cup Digits \cup {"_"}
\* the character "`" of Markdown
Backtick == "backtick"
\* ".!?" of split_into_sentences
EndPunct == {".", "!", "?"}

LowerOf ==
    ("A" :> "a") @@ ("B" :> "b") @@ ("C" :> "c") @@ ("D" :> "d") @@ ("E" :> "e") @@
    ("F" :> "f") @@ ("G" :> "g") @@ ("H" :> "h") @@ ("I" :> "i") @@ ("J" :> "j") @@
    ("K" :> "k") @@ ("L" :> "l") @@ ("M" :> "m") @@ ("N" :> "n") @@ ("O" :> "o") @@
    ("P" :> "p") @@ ("Q" :> "q") @@ ("R" :> "r") @@ ("S" :> "s") @@ ("T" :> "t") @@
    ("U" :> "u") @@ ("V" :> "v") @@ ("W" :> "w") @@ ("X" :> "x") @@ ("Y" :> "y") @@
    ("Z" :> "z")

\* str.lower
lower(s) == [i \in 1..Len(s) |-> IF s[i] \in UpperCase THEN LowerOf[s[i]] ELSE s[i]]

\* str.isdigit
isdigit(s) == s # << >> /\ \A i \in 1..Len(s) : s[i] \in Digits

RECURSIVE lstrip(_, _)
\* str.lstrip(chars)
lstrip(s, chars) ==
    IF s # << >> /\ Head(s) \in chars THEN lstrip(Tail(s), chars) ELSE s

RECURSIVE rstrip(_, _)
\* str.rstrip(chars)
rstrip(s, chars) ==
    IF s # << >> /\ s[Len(s)] \in chars THEN rstrip(Front(s), chars) ELSE s

\* str.strip()
strip(s) == rstrip(lstrip(s, Whitespace), Whitespace)

RECURSIVE replace(_, _, _)
\* str.replace(old, new), old not empty
replace(s, old, new) ==
    IF Len(s) < Len(old) THEN s
    ELSE IF SubSeq(s, 1, Len(old)) = old
         THEN new \o replace(SubSeq(s, Len(old) + 1, Len(s)), old, new)
         ELSE <<Head(s)>> \o replace(Tail(s), old, new)

RECURSIVE SplitFrom(_, _, _)
\* the words of text from position i on, cur being the word in progress
SplitFrom(text, i, cur) ==
    LET done == IF cur = << >> THEN << >> ELSE <<cur>>
    IN  IF i > Len(text) THEN done
        ELSE IF text[i] \in Whitespace
             THEN done \o SplitFrom(text, i + 1, << >>)
             ELSE SplitFrom(text, i + 1, Append(cur, text[i]))

\* str.split()
split(text) == SplitFrom(text, 1, << >>)

RECURSIVE join(_)
\* " ".join(words)
join(words) ==
    IF words = << >> THEN << >>
    ELSE IF Len(words) = 1 THEN words[1]
    ELSE words[1] \o <<" ">> \o join(Tail(words))

\* ============================================================ sentence splitter
ABBREVIATIONS ==
    { <<"m", "r">>, <<"m", "r", "s">>, <<"m", "s">>, <<"d", "r">>,
    <<"p", "r", "o", "f">>, <<"s", "r">>, <<"j", "r">>, <<"s", "t">>,
    <<"a", "v", "e">>, <<"i", "n", "c">>, <<"l", "t", "d">>,
    <<"c", "o", "r", "p">>, <<"d", "e", "p", "t">>, <<"e", "s", "t">>,
    <<"a", "p", "p", "r", "o", "x">>, <<"e", "t", "c">>, <<"v", "s">>,
    <<"f", "i", "g">>, <<"v", "o", "l">>, <<"n", "o">>, <<"j", "a", "n">>,
    <<"f", "e", "b">>, <<"m", "a", "r">>, <<"a", "p", "r">>,
    <<"j", "u", "n">>, <<"j", "u", "l">>, <<"a", "u", "g">>,
    <<"s", "e", "p">>, <<"o", "c", "t">>, <<"n", "o", "v">>,
    <<"d", "e", "c">> }

\* a plausible slip: the check of a bare number before the period is left out
ends_sentence_noNumberGuard(words, i) ==
    LET word == words[i]
        base == lower(rstrip(word, EndPunct))
    IN  /\ word[Len(word)] \in EndPunct
        /\ base \notin ABBREVIATIONS
        /\ ~(word[Len(word)] = "." /\ i + 1 <= Len(words) /\ words[i + 1][1] \in Digits)

\* split_into_sentences, the body of the loop for word i: the word ends in
\* . ! or ? and none of the three "continue" is taken
ends_sentence(words, i) ==
    LET word == words[i]
        base == lower(rstrip(word, EndPunct))
    IN  /\ word[Len(word)] \in EndPunct
        /\ base \notin ABBREVIATIONS
        /\ ~(word[Len(word)] = "." /\ i + 1 <= Len(words) /\ words[i + 1][1] \in Digits)
        /\ ~(word[Len(word)] = "."
              /\ isdigit(replace(replace(base, <<",">>, << >>), <<".">>, << >>)))

RECURSIVE SentenceLoop_dropsRest(_, _, _, _)
\* a plausible slip: the words after the last boundary are not returned
SentenceLoop_dropsRest(words, i, current, sentences) ==
    IF i > Len(words)
    THEN sentences
    ELSE IF ends_sentence(words, i)
         THEN SentenceLoop_dropsRest(words, i + 1, << >>,
                           Append(sentences, join(Append(current, words[i]))))
         ELSE SentenceLoop_dropsRest(words, i + 1, Append(current, words[i]),
                                     sentences)

RECURSIVE SentenceLoop(_, _, _, _)
\* split_into_sentences, the loop from word i on with its two accumulators
SentenceLoop(words, i, current, sentences) ==
    IF i > Len(words)
    THEN IF current # << >> THEN Append(sentences, join(current)) ELSE sentences
    ELSE IF ends_sentence(words, i)
         THEN SentenceLoop(words, i + 1, << >>,
                           Append(sentences, join(Append(current, words[i]))))
         ELSE SentenceLoop(words, i + 1, Append(current, words[i]), sentences)

\* split_into_sentences
split_into_sentences(text) ==
    IF strip(text) = << >> THEN << >>
    ELSE SentenceLoop(split(text), 1, << >>, << >>)

\* ============================================================ format_for_speech
RECURSIVE SkipSpace(_, _)
\* the first position from i on that holds no whitespace
SkipSpace(s, i) ==
    IF i <= Len(s) /\ s[i] \in Whitespace THEN SkipSpace(s, i + 1) ELSE i

RECURSIVE PeriodRun(_, _)
\* the position after the longest match of (\s*\.)* that starts at i
PeriodRun(s, i) ==
    LET j == SkipSpace(s, i)
    IN  IF j <= Len(s) /\ s[j] = "." THEN PeriodRun(s, j + 1) ELSE i

RECURSIVE CollapsePeriods(_, _)
\* re.sub(r"\.(\s*\.)+", ".", s) from position i on
CollapsePeriods(s, i) ==
    IF i > Len(s) THEN << >>
    ELSE IF s[i] = "."
         THEN <<".">> \o CollapsePeriods(s, PeriodRun(s, i + 1))
         ELSE <<s[i]>> \o CollapsePeriods(s, i + 1)

RECURSIVE CollapseSpaces(_, _)
\* re.sub(r"\s{2,}", " ", s) from position i on
CollapseSpaces(s, i) ==
    IF i > Len(s) THEN << >>
    ELSE IF s[i] \in Whitespace
         THEN LET j == SkipSpace(s, i)
              IN  (IF j - i >= 2 THEN <<" ">> ELSE <<s[i]>>) \o CollapseSpaces(s, j)
         ELSE <<s[i]>> \o CollapseSpaces(s, i + 1)

\* format_for_speech
format_for_speech(text) ==
    IF text = << >> THEN << >>
    ELSE LET t1 == replace(replace(replace(text, <<"*", "*">>, << >>), <<"*">>, << >>),
                           <<"#">>, << >>)
             t2 == replace(replace(t1, <<Backtick, Backtick, Backtick>>, << >>),
                           <<Backtick>>, << >>)
             t3 == replace(replace(t2, <<"\n", "\n">>, <<".", " ">>), <<"\n">>, <<".", " ">>)
         IN  strip(CollapseSpaces(CollapsePeriods(t3, 1), 1))

\* ============================================================ route detection
\* routing.routeDetectionChars of the configuration, its default
ROUTE_DETECTION_CHARS == 50

\* "[ROUTE:"
RouteTag == <<"[", "R", "O", "U", "T", "E", ":">>
\* "__ROUTE__:"
SentinelTag == <<"_", "_", "R", "O", "U", "T", "E", "_", "_", ":">>
\* None, the poison pill, as an item of a queue of strings
PILL == <<"None">>

NoMatch == [found |-> FALSE, agent |-> << >>, query |-> << >>]

RECURSIVE WordRun(_, _)
\* the first position from i on that holds no character of [\w-]
WordRun(s, i) ==
    IF i <= Len(s) /\ s[i] \in WordChars \cup {"-"} THEN WordRun(s, i + 1) ELSE i

\* re.match(r"\[ROUTE:([\w-]+)\]\s*(.*)", s, re.DOTALL), s read from position i
route_match(s, i) ==
    LET a == i + Len(RouteTag)
        b == WordRun(s, a)
    IN  IF /\ Len(s) >= a
           /\ SubSeq(s, i, a - 1) = RouteTag
           /\ b > a
           /\ b <= Len(s)
           /\ s[b] = "]"
        THEN [found |-> TRUE,
              agent |-> SubSeq(s, a, b - 1),
              query |-> SubSeq(s, SkipSpace(s, b + 1), Len(s))]
        ELSE NoMatch

\* _process_token_buffer: the match it acts on, if any
process_token_buffer(token_buffer_, route_check_done_) ==
    IF route_check_done_ THEN NoMatch
    ELSE IF Len(token_buffer_) > ROUTE_DETECTION_CHARS + 50 THEN NoMatch
    ELSE LET m == route_match(token_buffer_, SkipSpace(token_buffer_, 1))
         IN  IF m.found THEN [m EXCEPT !.query = strip(m.query)] ELSE NoMatch

\* _process_token_buffer: f"[ROUTE:{agent_id}] {refined_query}"
RouteResponse(m) == RouteTag \o m.agent \o <<"]", " ">> \o m.query

\* _process_token_buffer: f"__ROUTE__:{agent_id}:{refined_query}"
RouteSentinel(m) == SentinelTag \o m.agent \o <<":">> \o m.query

IsSentinel(item) ==
    Len(item) >= Len(SentinelTag) /\ SubSeq(item, 1, Len(SentinelTag)) = SentinelTag

\* _emit_sentences: the sentences it puts and the buffer it returns
emit_sentences(token_buffer_) ==
    LET sentences == split_into_sentences(format_for_speech(token_buffer_))
    IN  IF Len(sentences) > 1
        THEN [put |-> SelectSeq(Front(sentences), LAMBDA sent : strip(sent) # << >>),
              rest |-> Last(sentences)]
        ELSE [put |-> << >>, rest |-> token_buffer_]

\* _flush_buffer: what it puts
flush_buffer(token_buffer_) ==
    IF strip(token_buffer_) # << >> /\ format_for_speech(token_buffer_) # << >>
    THEN << format_for_speech(token_buffer_) >>
    ELSE << >>

RECURSIVE Spoken(_)
\* full_response += sent + " " for every sentence put
Spoken(sents) ==
    IF sents = << >> THEN << >> ELSE Head(sents) \o <<" ">> \o Spoken(Tail(sents))

\* _handle_turn: the arguments of _handle_routing, if the response is a route
handle_turn_route(resp, said) ==
    LET m == route_match(resp, 1)
    IN  IF m.found
        THEN [found |-> TRUE, agent |-> m.agent,
              query |-> IF strip(m.query) # << >> THEN strip(m.query) ELSE said]
        ELSE NoMatch

\* ------------------------------------------------------------ SpecRoute
\* The token loop of one provider stream that nobody cancels, and what
\* _handle_turn makes of the response, for a few replies and for the ways
\* a provider may cut a reply into fragments of one width, of 1 to MaxWidth
\* characters (the last fragment holds what is left).
MaxWidth == 41

\* "[ROUTE:deal-scanner] find me a laundromat"
RouteReply == <<
    "[", "R", "O", "U", "T", "E", ":", "d", "e", "a", "l", "-", "s", "c",
    "a", "n", "n", "e", "r", "]", " ", "f", "i", "n", "d", " ", "m", "e",
    " ", "a", " ", "l", "a", "u", "n", "d", "r", "o", "m", "a", "t" >>

\* "Ok then. " twelve times, then "[ROUTE:x] go on"
LateRouteReply == <<
    "O", "k", " ", "t", "h", "e", "n", ".", " ", "O", "k", " ", "t", "h",
    "e", "n", ".", " ", "O", "k", " ", "t", "h", "e", "n", ".", " ", "O",
    "k", " ", "t", "h", "e", "n", ".", " ", "O", "k", " ", "t", "h", "e",
    "n", ".", " ", "O", "k", " ", "t", "h", "e", "n", ".", " ", "O", "k",
    " ", "t", "h", "e", "n", ".", " ", "O", "k", " ", "t", "h", "e", "n",
    ".", " ", "O", "k", " ", "t", "h", "e", "n", ".", " ", "O", "k", " ",
    "t", "h", "e", "n", ".", " ", "O", "k", " ", "t", "h", "e", "n", ".",
    " ", "O", "k", " ", "t", "h", "e", "n", ".", " ", "[", "R", "O", "U",
    "T", "E", ":", "x", "]", " ", "g", "o", " ", "o", "n" >>

\* "**Sure.**\nIt costs 12. Dr. Smith left at 3.5pm!"
PlainReply == <<
    "*", "*", "S", "u", "r", "e", ".", "*", "*", "\n", "I", "t", " ", "c",
    "o", "s", "t", "s", " ", "1", "2", ".", " ", "D", "r", ".", " ", "S",
    "m", "i", "t", "h", " ", "l", "e", "f", "t", " ", "a", "t", " ", "3",
    ".", "5", "p", "m", "!" >>

\* "**[ROUTE:x]** go on"
BoldRouteReply == <<
    "*", "*", "[", "R", "O", "U", "T", "E", ":", "x", "]", "*", "*", " ",
    "g", "o", " ", "o", "n" >>

Replies == {RouteReply, LateRouteReply, PlainReply, BoldRouteReply}

\* what the user said in this turn: "any laundromats nearby"
UserSaid == <<
    "a", "n", "y", " ", "l", "a", "u", "n", "d", "r", "o", "m", "a", "t",
    "s", " ", "n", "e", "a", "r", "b", "y" >>

TextInit(r, w, t) ==
    /\ reply = r
    /\ width = w
    /\ fed = 0
    /\ token_buffer = << >>
    /\ route_check_done = FALSE
    /\ tpc = "stream"
    /\ textq = << >>
    /\ full_text = << >>
    /\ routing = NoMatch
    /\ split_text = t
    /\ split_result = << >>
    /\ split_done = FALSE

\* no token loop under way, split_into_sentences not called
TextIdle == TextInit(<< >>, 0, << >>)


\* ============================================================ capture
\* listen_for_speech is entered: frames = [], silent_frames = 0,
\* speech_detected = False
CaptureStart ==
    /\ heard = << >>
    /\ frames = << >>
    /\ silent_frames = 0
    /\ speech_detected = FALSE
    /\ cpc = "loop"
    /\ audio = "none"

\* MAX_RECORDING_S * 1000 / FRAME_DURATION_MS (1000 by default), scaled down
max_frames == 8
\* SILENCE_THRESHOLD_S * 1000 / FRAME_DURATION_MS (50 by default), scaled down
silence_limit == 2
\* "len(frames) < 5"
MIN_FRAMES == 5

\* the locals of listen_for_speech
Locals(fr, sf, sd, brk) ==
    [frames |-> fr, silent_frames |-> sf, speech_detected |-> sd, break |-> brk]

\* a plausible slip: a speech frame does not reset the counter
capture_frame_noReset(loc, pos, is_speech) ==
    IF is_speech
    THEN Locals(Append(loc.frames, pos), loc.silent_frames, TRUE, FALSE)
    ELSE IF loc.speech_detected
         THEN Locals(Append(loc.frames, pos), loc.silent_frames + 1, TRUE,
                     loc.silent_frames + 1 >= silence_limit)
         ELSE loc

\* listen_for_speech, the body of the loop for the frame at position pos
capture_frame(loc, pos, is_speech) ==
    IF is_speech
    THEN Locals(Append(loc.frames, pos), 0, TRUE, FALSE)
    ELSE IF loc.speech_detected
         THEN Locals(Append(loc.frames, pos), loc.silent_frames + 1, TRUE,
                     loc.silent_frames + 1 >= silence_limit)
         ELSE loc

\* a plausible slip: the number of frames is not looked at
capture_result_anyLength(sd, fr) == IF ~sd THEN "none" ELSE "utterance"

\* listen_for_speech after the loop: None or the frames
capture_result(sd, fr) ==
    IF ~sd \/ Len(fr) < MIN_FRAMES THEN "none" ELSE "utterance"

\* ============================================================ daemon: Init
\* JarvisVoice.__init__ and StreamingPipeline.__init__
DaemonInitWith(fallbacks) ==
    /\ chain = fallbacks
    /\ prov = [r \in Runs |-> 0]
    /\ attempts = << >>
    /\ puts = << >>
    /\ state = "IDLE"
    /\ mpc = "wait"
    /\ pttEvent = FALSE
    /\ ipc = "idle"
    /\ response = << >>
    /\ agent_response = "none"
    /\ cancel = FALSE
    /\ sq = << >>
    /\ aq = << >>
    /\ full_response = << >>
    /\ run = 0
    /\ pcA = [r \in Runs |-> "done"]
    /\ pcB = [r \in Runs |-> "done"]
    /\ pcC = [r \in Runs |-> "done"]
    /\ nA = [r \in Runs |-> 0]
    /\ heldB = [r \in Runs |-> NONE]
    /\ heldC = [r \in Runs |-> NONE]
    /\ presses = 0
    /\ ptt = "none"
    /\ emitted = << >>
    /\ played = << >>
    /\ failed = {}
    /\ clean = TRUE
    /\ nInt = [r \in Runs |-> 0]
    /\ dead = {}
    /\ running = TRUE
    /\ events = << >>
    /\ CaptureStart

\* load_llm_providers: no llm-providers.json, no fallback
DaemonInit == DaemonInitWith(<< >>)

Init ==
    /\ turns = << >>
    /\ store = << >>
    /\ writable = TRUE
    /\ hist = << >>
    /\ ops = 0
    /\ memop = NoOp
    /\ DaemonInit
    /\ TextIdle

\* ============================================================ listener thread
\* a plausible slip: only SPEAKING and "anything else" are told apart
on_ptt_pressed_neverIgnores(current) ==
    IF current = "SPEAKING" THEN "interrupt" ELSE "activate"

\* a plausible slip: a press while the daemon is busy interrupts as well
on_ptt_pressed_busyInterrupts(current) ==
    IF current \in {"SPEAKING", "PROCESSING"} THEN "interrupt"
    ELSE IF current = "IDLE" THEN "activate"
    ELSE "ignore"

\* _on_ptt_pressed: what a press does in the state it reads
on_ptt_pressed(current) ==
    IF current = "SPEAKING" THEN "interrupt"
    ELSE IF current = "IDLE" THEN "activate"
    ELSE "ignore"

\* the hotkey callback runs: it reads the state and, in IDLE, sets the event
PTT_Press ==
    /\ ipc = "idle"
    /\ presses < MaxPress
    /\ presses' = presses + 1
    /\ LET branch == on_ptt_pressed(state)
       IN  /\ ipc' = IF branch = "interrupt" THEN "set" ELSE "idle"
           /\ pttEvent' = IF branch = "activate" THEN TRUE ELSE pttEvent
           /\ ptt' = CASE branch = "interrupt" /\ ptt \in {"none", "ignored"} -> "received"
                        [] branch = "ignore" /\ ptt = "none" -> "ignored"
                        [] OTHER -> ptt
    /\ UNCHANGED <<textVars, running, events, capVars, memVars, provVars,
                   state, mpc, response, agent_response, pipeVars, stageVars,
                   ghostVars>>

\* a plausible slip: the flag is left as it is
cancel_set_noop(flag) == flag

\* threading.Event.set() as interrupt() uses it
cancel_set(flag) == TRUE

\* interrupt(): self.cancel.set()
Int_Set ==
    /\ ipc = "set"
    /\ cancel' = cancel_set(cancel)
    /\ ipc' = "drain"
    /\ ptt' = IF ptt = "received" THEN "flagged" ELSE ptt
    /\ clean' = FALSE
    /\ nInt' = IF mpc \in JoinPcs THEN [nInt EXCEPT ![run] = nInt[run] + 1] ELSE nInt
    /\ dead' = IF mpc \in JoinPcs
               THEN dead \cup { x \in SeqRange(aq) : IsSpeech(x) }
               ELSE dead
    /\ UNCHANGED <<textVars, running, events, capVars, memVars, provVars,
                   mainVars, presses, sq, aq, full_response, run, stageVars,
                   emitted, played, failed>>

\* a plausible slip: the queues are not drained
drain_nothing(q) == q

\* interrupt(): while not q.empty(): q.get_nowait()
drain(q) == << >>

\* interrupt(): both queues are drained
Int_Drain ==
    /\ ipc = "drain"
    /\ sq' = drain(sq)
    /\ aq' = drain(aq)
    /\ ipc' = "put"
    /\ clean' = FALSE
    /\ UNCHANGED <<textVars, running, events, capVars, memVars, provVars,
                   mainVars, presses, ptt, cancel, full_response, run,
                   stageVars, emitted, played, failed, nInt, dead>>

\* interrupt(): q.put(None)
put_pill(q) == Append(q, END)

\* interrupt(): a poison pill is put on each queue
Int_Put ==
    /\ ipc = "put"
    /\ sq' = put_pill(sq)
    /\ aq' = put_pill(aq)
    /\ ipc' = "notify"
    /\ clean' = FALSE
    /\ UNCHANGED <<textVars, running, events, capVars, memVars, provVars,
                   mainVars, presses, ptt, cancel, full_response, run,
                   stageVars, emitted, played, failed, nInt, dead>>

\* interrupt() from its first statement to its last with no other thread
\* in between, as a function of the flag and the two queues
interrupt(p) ==
    [cancel |-> cancel_set(p.cancel),
     sq |-> put_pill(drain(p.sq)),
     aq |-> put_pill(drain(p.aq))]

\* _on_ptt_pressed after interrupt(): sd.stop(); self._ptt_event.set()
PTT_Notify ==
    /\ ipc = "notify"
    /\ pttEvent' = TRUE
    /\ ipc' = "idle"
    /\ UNCHANGED <<textVars, running, events, capVars, memVars, provVars,
                   state, mpc, response, agent_response, presses, ptt,
                   pipeVars, stageVars, ghostVars>>

\* ============================================================ main thread
\* the event is set: clear it, enter RECORDING, start listen_for_speech
\* (its locals are initialised)
Wake ==
    /\ pttEvent
    /\ pttEvent' = FALSE
    /\ state' = "RECORDING"
    /\ mpc' = "listen"
    /\ ptt' = "none"
    /\ events' = << >>
    /\ heard' = << >>
    /\ frames' = << >>
    /\ silent_frames' = 0
    /\ speech_detected' = FALSE
    /\ cpc' = "loop"
    /\ audio' = "none"
    /\ UNCHANGED <<textVars, running, memVars, provVars, response,
                   agent_response, ipc, presses, pipeVars, stageVars,
                   ghostVars>>

\* the wait for the event and what follows it, in one step
Main_Wake == mpc = "wait" /\ Wake

\* listen_for_speech returned None: back to IDLE.  Capture lasts seconds
\* (the beep, then frames until 1.5 s of silence or the timeout); a
\* push-to-talk callback that began before it has returned by then.
Main_NoSpeech ==
    /\ mpc = "listen"
    /\ ipc = "idle"
    /\ state' = "IDLE"
    /\ mpc' = "wait"
    /\ UNCHANGED <<textVars, running, events, capVars, memVars, provVars,
                   pttEvent, response, agent_response, listenerVars, pipeVars,
                   stageVars, ghostVars>>

\* listen_for_speech returned an utterance: PROCESSING, transcribe
Main_Captured ==
    /\ mpc = "listen"
    /\ ipc = "idle"
    /\ state' = "PROCESSING"
    /\ mpc' = "transcribe"
    /\ UNCHANGED <<textVars, running, events, capVars, memVars, provVars,
                   pttEvent, response, agent_response, listenerVars, pipeVars,
                   stageVars, ghostVars>>

\* None, as what transcribe returns
None == <<"None">>

\* mlx_whisper.transcribe raised, or Whisper is not available
WhisperFailed == <<"exception">>

\* what mlx_whisper.transcribe may give for the "text" of its result
WhisperResults ==
    { WhisperFailed, << >>, <<" ", "\n">>, <<" ">> \o UserSaid \o <<"\n">> }

\* a plausible slip: the text is not stripped before it is tested
transcribe_noStrip(result) ==
    IF result = WhisperFailed THEN None
    ELSE IF result # << >> THEN result ELSE None

\* transcribe: the stripped text, None if it is empty or on any exception
transcribe(result) ==
    IF result = WhisperFailed THEN None
    ELSE LET text == strip(result)
         IN  IF text # << >> THEN text ELSE None

\* what transcribe returns for each result of Whisper
transcribed == [result \in WhisperResults |-> transcribe(result)]

\* transcribe returned nothing: "I didn't catch that.", back to IDLE
Main_NoText ==
    /\ mpc = "transcribe"
    /\ \E result \in WhisperResults : transcribed[result] = None
    /\ events' = Append(events, "didnt_catch")
    /\ state' = "IDLE"
    /\ mpc' = "wait"
    /\ UNCHANGED <<textVars, running, capVars, memVars, provVars, pttEvent,
                   response, agent_response, listenerVars, pipeVars,
                   stageVars, ghostVars>>

VoiceCommands == {"clear", "forget", "repeat_user", "repeat_assistant"}

\* conversation.voiceCommands.clearMemory, its default:
\* "new conversation", "start over", "clear history", "reset"
VOICE_CMD_CLEAR == <<
    <<"n", "e", "w", " ", "c", "o", "n", "v", "e", "r", "s", "a", "t", "i", "o", "n">>,
    <<"s", "t", "a", "r", "t", " ", "o", "v", "e", "r">>,
    <<"c", "l", "e", "a", "r", " ", "h", "i", "s", "t", "o", "r", "y">>,
    <<"r", "e", "s", "e", "t">> >>

\* conversation.voiceCommands.forgetLast, its default:
\* "forget that", "undo that", "never mind", "scratch that"
VOICE_CMD_FORGET == <<
    <<"f", "o", "r", "g", "e", "t", " ", "t", "h", "a", "t">>,
    <<"u", "n", "d", "o", " ", "t", "h", "a", "t">>,
    <<"n", "e", "v", "e", "r", " ", "m", "i", "n", "d">>,
    <<"s", "c", "r", "a", "t", "c", "h", " ", "t", "h", "a", "t">> >>

\* "what did i just ask", "what did i say"
RepeatUserPhrases == <<
    <<"w", "h", "a", "t", " ", "d", "i", "d", " ", "i", " ", "j", "u", "s", "t", " ", "a", "s", "k">>,
    <<"w", "h", "a", "t", " ", "d", "i", "d", " ", "i", " ", "s", "a", "y">> >>

\* "say that again", "repeat that"
RepeatAssistantPhrases == <<
    <<"s", "a", "y", " ", "t", "h", "a", "t", " ", "a", "g", "a", "i", "n">>,
    <<"r", "e", "p", "e", "a", "t", " ", "t", "h", "a", "t">> >>

\* phrase in text
Contains(text, phrase) ==
    \E i \in 1..(Len(text) - Len(phrase) + 1) :
        SubSeq(text, i, i + Len(phrase) - 1) = phrase

ContainsAny(text, phrases) ==
    \E k \in 1..Len(phrases) : Contains(text, phrases[k])

\* _check_voice_command, "none" for None
check_voice_command(text) ==
    LET text_lower == strip(lower(text))
    IN  IF ContainsAny(text_lower, VOICE_CMD_CLEAR) THEN "clear"
        ELSE IF ContainsAny(text_lower, VOICE_CMD_FORGET) THEN "forget"
        ELSE IF ContainsAny(text_lower, RepeatUserPhrases) THEN "repeat_user"
        ELSE IF ContainsAny(text_lower, RepeatAssistantPhrases) THEN "repeat_assistant"
        ELSE "none"

\* _handle_voice_command: the turns it leaves
handle_voice_command(command, ts) ==
    CASE command = "clear" -> clear(ts)
      [] command = "forget" -> forget_last(ts)
      [] OTHER -> ts

\* "please start over now"
StartOverText == <<
    "p", "l", "e", "a", "s", "e", " ", "s", "t", "a", "r", "t", " ", "o",
    "v", "e", "r", " ", "n", "o", "w" >>

\* "Never mind."
NeverMindText == <<
    "N", "e", "v", "e", "r", " ", "m", "i", "n", "d", "." >>

\* "What did I say?"
WhatDidISayText == <<
    "W", "h", "a", "t", " ", "d", "i", "d", " ", "I", " ", "s", "a", "y",
    "?" >>

\* " say that again "
SayThatAgainText == <<
    " ", "s", "a", "y", " ", "t", "h", "a", "t", " ", "a", "g", "a", "i",
    "n", " " >>

\* what the user may say besides an ordinary request
CommandTranscripts == {StartOverText, NeverMindText, WhatDidISayText, SayThatAgainText}

\* what _check_voice_command returns for each thing the user may say
voice_cmd == [text \in CommandTranscripts \cup {UserSaid} |-> check_voice_command(text)]

\* the transcript is a voice command: _handle_voice_command, back to IDLE
Main_VoiceCommandOn(text) ==
    /\ mpc = "transcribe"
    /\ voice_cmd[text] \in VoiceCommands
    /\ turns' = handle_voice_command(voice_cmd[text], turns)
    /\ store' = IF voice_cmd[text] \in {"clear", "forget"}
                 THEN save(turns', store, writable)
                 ELSE store
    /\ state' = "IDLE"
    /\ mpc' = "wait"
    /\ UNCHANGED <<textVars, running, events, capVars, writable, hist, ops,
                   memop, provVars, pttEvent, response, agent_response,
                   listenerVars, pipeVars, stageVars, ghostVars>>

Main_VoiceCommand == \E text \in CommandTranscripts : Main_VoiceCommandOn(text)

\* an ordinary transcript: SPEAKING, then _handle_turn
Main_Speaking(limit) ==
    /\ mpc = "transcribe"
    /\ run < limit
    /\ voice_cmd[UserSaid] = "none"
    /\ state' = "SPEAKING"
    /\ mpc' = "turn"
    /\ UNCHANGED <<textVars, running, events, capVars, memVars, provVars,
                   pttEvent, response, agent_response, listenerVars, pipeVars,
                   stageVars, ghostVars>>

\* _handle_turn: memory.add_user(text); messages = memory.get_messages()
Main_HandleTurn ==
    /\ mpc = "turn"
    /\ turns' = add_user(turns, UserText(1))
    /\ store' = save(turns', store, writable)
    /\ mpc' = "run"
    /\ UNCHANGED <<textVars, running, events, capVars, writable, hist, ops,
                   memop, provVars, state, pttEvent, response, agent_response,
                   listenerVars, pipeVars, stageVars, ghostVars>>

\* a plausible slip: run() leaves the flag as it finds it
PipelineRun_Start_keepsFlag ==
    /\ mpc = "run"
    /\ cancel' = cancel
    /\ full_response' = << >>
    /\ sq' = << >>
    /\ aq' = << >>
    /\ run' = run + 1
    /\ pcA' = [pcA EXCEPT ![run + 1] = "stream"]
    /\ pcB' = [pcB EXCEPT ![run + 1] = "loop"]
    /\ pcC' = [pcC EXCEPT ![run + 1] = "loop"]
    /\ mpc' = "joinA"
    /\ emitted' = << >>
    /\ played' = << >>
    /\ failed' = {}
    /\ clean' = (ipc = "idle")
    /\ prov' = [prov EXCEPT ![run + 1] = 0]
    /\ attempts' = << Request(0) >>
    /\ puts' = << >>
    /\ UNCHANGED <<textVars, running, events, capVars, memVars, chain, state,
                   pttEvent, response, agent_response, listenerVars, nA,
                   heldB, heldC, nInt, dead>>

\* StreamingPipeline.run up to the joins: the flag is cleared, the response
\* and both queues are replaced, the three threads are started
PipelineRun_Start ==
    /\ mpc = "run"
    /\ cancel' = FALSE
    /\ full_response' = << >>
    /\ sq' = << >>
    /\ aq' = << >>
    /\ run' = run + 1
    /\ pcA' = [pcA EXCEPT ![run + 1] = "stream"]
    /\ pcB' = [pcB EXCEPT ![run + 1] = "loop"]
    /\ pcC' = [pcC EXCEPT ![run + 1] = "loop"]
    /\ mpc' = "joinA"
    /\ emitted' = << >>
    /\ played' = << >>
    /\ failed' = {}
    /\ clean' = (ipc = "idle")
    /\ prov' = [prov EXCEPT ![run + 1] = 0]
    /\ attempts' = << Request(0) >>
    /\ puts' = << >>
    /\ UNCHANGED <<textVars, running, events, capVars, memVars, chain, state,
                   pttEvent, response, agent_response, listenerVars, nA,
                   heldB, heldC, nInt, dead>>

JoinedPc == [joinA |-> pcA[run], joinB |-> pcB[run], joinC |-> pcC[run]]
AfterJoin == [joinA |-> "joinB", joinB |-> "joinC", joinC |-> "post"]

\* the rest of run() once the last join returned: return self.full_response
Main_AfterJoin ==
    /\ mpc' = AfterJoin[mpc]
    /\ response' = IF mpc = "joinC" THEN full_response ELSE response
    /\ UNCHANGED <<textVars, running, events, capVars, memVars, provVars,
                   state, pttEvent, agent_response, listenerVars, pipeVars,
                   stageVars, ghostVars>>

\* t.join(timeout=...): the thread has finished
Main_JoinFinished ==
    /\ mpc \in JoinPcs
    /\ JoinedPc[mpc] = "done"
    /\ Main_AfterJoin

\* t.join(timeout=LLM_STREAM_TIMEOUT + 10): the timeout expires first
Main_JoinTimeout ==
    /\ mpc \in JoinPcs
    /\ JoinedPc[mpc] # "done"
    /\ Main_AfterJoin

\* _handle_turn / _handle_routing return: their locals are gone, and so is
\* what was recorded about the run of this turn
TurnReturns ==
    /\ response' = << >>
    /\ agent_response' = "none"
    /\ emitted' = << >>
    /\ played' = << >>
    /\ failed' = {}
    /\ clean' = TRUE
    /\ attempts' = << >>
    /\ puts' = << >>

is_route(resp) == resp # << >> /\ resp[1] = RouteText[1]
\* a plausible slip: the error mark is not recognised
is_error_never(resp) == FALSE

\* _handle_turn: response.startswith("[error:")
is_error(resp) == resp # << >> /\ resp[1] = ErrorText[1]

\* _handle_turn after run(): the reply names a specialist: _handle_routing
Main_PostRoute ==
    /\ mpc = "post"
    /\ is_route(response)
    /\ mpc' = "bridge"
    /\ UNCHANGED <<textVars, running, events, capVars, memVars, provVars,
                   state, pttEvent, response, agent_response, listenerVars,
                   pipeVars, stageVars, ghostVars>>

\* _handle_turn after run(): an ordinary reply is added to memory, an empty
\* or error one is not; run() of JarvisVoice then sets IDLE
Main_PostReply ==
    /\ mpc = "post"
    /\ ~is_route(response)
    /\ IF response # << >> /\ ~is_error(response)
       THEN /\ turns' = add_assistant(turns, response)
            /\ store' = save(turns', store, writable)
       ELSE UNCHANGED <<turns, store>>
    /\ state' = "IDLE"
    /\ mpc' = "wait"
    /\ TurnReturns
    /\ UNCHANGED <<textVars, running, events, capVars, writable, hist, ops,
                   memop, chain, prov, pttEvent, listenerVars, pipeVars,
                   stageVars, nInt, dead>>

\* _handle_routing: the bridge phrase is spoken, PROCESSING, send_to_agent
Main_Bridge ==
    /\ mpc = "bridge"
    /\ state' = "PROCESSING"
    /\ mpc' = "agent"
    /\ events' = events \o <<"bridge", "request">>
    /\ UNCHANGED <<textVars, running, capVars, memVars, provVars, pttEvent,
                   response, agent_response, listenerVars, pipeVars,
                   stageVars, ghostVars>>

\* what send_to_agent returns: the specialist's answer, one of its two fixed
\* failure messages, or an empty answer
AgentOutcomes == {"ok", "timeout", "http_error", "empty"}

\* "[Routed to <agent>] <spoken>", by what was spoken
RoutedText(out) ==
    CASE out = "ok" -> << <<0, -4>> >>
      [] out = "timeout" -> << <<0, -5>> >>
      [] OTHER -> << <<0, -6>> >>

\* send_to_agent returned
Main_Agent ==
    /\ mpc = "agent"
    /\ \E out \in AgentOutcomes :
          IF out # "empty"
          THEN /\ agent_response' = out
               /\ state' = "SPEAKING"
               /\ mpc' = "respond"
               /\ UNCHANGED <<response, emitted, played, failed, clean,
                              attempts, puts, events>>
          ELSE /\ events' = Append(events, "no_response")
               /\ state' = "IDLE"
               /\ mpc' = "wait"
               /\ TurnReturns
    /\ UNCHANGED <<textVars, running, capVars, memVars, provVars, pttEvent,
                   listenerVars, pipeVars, stageVars, nInt, dead>>

\* _handle_routing: the answer is spoken and added to memory; then IDLE
Main_Respond ==
    /\ mpc = "respond"
    /\ turns' = add_assistant(turns, RoutedText(agent_response))
    /\ store' = save(turns', store, writable)
    /\ events' = events \o <<"answer", "memory">>
    /\ state' = "IDLE"
    /\ mpc' = "wait"
    /\ TurnReturns
    /\ UNCHANGED <<textVars, running, capVars, writable, hist, ops, memop,
                   chain, prov, pttEvent, listenerVars, pipeVars, stageVars,
                   nInt, dead>>

\* ============================================================ Stage A
Started(r) == r <= run

\* a plausible slip: a complete sentence is emitted whatever the flag says
A_Emit_unguarded(r) ==
    /\ Started(r)
    /\ pcA[r] = "stream"
    /\ Streams(prov[r])
    /\ nA[r] < NumSent
    /\ nA' = [nA EXCEPT ![r] = nA[r] + 1]
    /\ LET s == Sentence(r, prov[r] * NumSent + nA[r] + 1)
       IN  /\ sq' = Append(sq, s)
           /\ full_response' = Append(full_response, s)
           /\ emitted' = IF r = run THEN Append(emitted, s) ELSE emitted
           /\ puts' = IF r = run THEN Append(puts, s) ELSE puts
    /\ attempts' = IF r = run THEN Counted(attempts) ELSE attempts
    /\ UNCHANGED <<textVars, running, events, capVars, memVars, mainVars,
                   listenerVars, cancel, aq, run, chain, prov, pcA, pcB, pcC,
                   heldB, heldC, played, failed, clean, nInt, dead>>

\* _try_ollama_stream / _try_cloud_stream / _emit_sentences: a sentence is
\* complete; unless the flag is set it is put on the queue and appended to
\* full_response
A_Emit(r) ==
    /\ Started(r)
    /\ pcA[r] = "stream"
    /\ Streams(prov[r])
    /\ ~cancel
    /\ nA[r] < NumSent
    /\ nA' = [nA EXCEPT ![r] = nA[r] + 1]
    /\ LET s == Sentence(r, prov[r] * NumSent + nA[r] + 1)
       IN  /\ sq' = Append(sq, s)
           /\ full_response' = Append(full_response, s)
           /\ emitted' = IF r = run THEN Append(emitted, s) ELSE emitted
           /\ puts' = IF r = run THEN Append(puts, s) ELSE puts
    /\ attempts' = IF r = run THEN Counted(attempts) ELSE attempts
    /\ UNCHANGED <<textVars, running, events, capVars, memVars, mainVars,
                   listenerVars, cancel, aq, run, chain, prov, pcA, pcB, pcC,
                   heldB, heldC, played, failed, clean, nInt, dead>>

\* _try_ollama_stream / _try_cloud_stream: the stream ends and the poison
\* pill is put.  What _flush_buffer puts before it is one more A_Emit step:
\* the same check of the flag, the same put, the same append to
\* full_response.
A_End(r) ==
    /\ Started(r)
    /\ pcA[r] = "stream"
    /\ Streams(prov[r])
    /\ sq' = Append(sq, END)
    /\ puts' = IF r = run THEN Append(puts, END) ELSE puts
    /\ attempts' = IF r = run THEN Ended(attempts, "ok") ELSE attempts
    /\ pcA' = [pcA EXCEPT ![r] = "done"]
    /\ nA' = [nA EXCEPT ![r] = 0]
    /\ UNCHANGED <<textVars, running, events, capVars, memVars, mainVars,
                   listenerVars, cancel, aq, full_response, run, chain, prov,
                   pcB, pcC, heldB, heldC, ghostVars>>

\* _try_ollama_stream / _try_cloud_stream: the flag is seen at the head of
\* the token loop; the thread returns and puts nothing
A_Cancelled(r) ==
    /\ Started(r)
    /\ pcA[r] = "stream"
    /\ Streams(prov[r])
    /\ cancel
    /\ attempts' = IF r = run THEN Ended(attempts, "cancelled") ELSE attempts
    /\ pcA' = [pcA EXCEPT ![r] = "done"]
    /\ nA' = [nA EXCEPT ![r] = 0]
    /\ UNCHANGED <<textVars, running, events, capVars, memVars, mainVars,
                   listenerVars, pipeVars, pcB, pcC, heldB, heldC, ghostVars,
                   chain, prov, puts>>

\* a plausible slip: the pill is left to the caller, which returns at once
route_puts_noPill(r) == <<ROUTE(r)>>

\* _process_token_buffer: what is put on sentence_queue on a match
route_puts(r) == <<ROUTE(r), END>>

\* _process_token_buffer: the buffer matches [ROUTE:<agent>] <query>
A_Route(r) ==
    /\ Started(r)
    /\ pcA[r] = "stream"
    /\ Streams(prov[r])
    /\ ~cancel
    /\ full_response' = RouteText
    /\ sq' = sq \o route_puts(r)
    /\ puts' = IF r = run THEN puts \o route_puts(r) ELSE puts
    /\ attempts' = IF r = run THEN Ended(attempts, "route") ELSE attempts
    /\ pcA' = [pcA EXCEPT ![r] = "done"]
    /\ nA' = [nA EXCEPT ![r] = 0]
    /\ UNCHANGED <<textVars, running, events, capVars, memVars, mainVars,
                   listenerVars, cancel, aq, run, chain, prov, pcB, pcC,
                   heldB, heldC, ghostVars>>

\* _stream_from_ollama: the provider failed (no connection, a timeout, an
\* HTTP error, any other exception, before or in the middle of its stream,
\* or no request at all for a "google" one), the flag is clear and the
\* chain holds another provider: that one is tried, with a buffer of its own
A_Fail(r) ==
    /\ Started(r)
    /\ pcA[r] = "stream"
    /\ ~cancel
    /\ prov[r] < Len(chain)
    /\ prov' = [prov EXCEPT ![r] = next_provider(prov[r])]
    /\ nA' = [nA EXCEPT ![r] = 0]
    /\ attempts' = IF r = run
                   THEN Append(Ended(attempts, "failed"), Request(prov'[r]))
                   ELSE attempts
    /\ UNCHANGED <<textVars, running, events, capVars, memVars, mainVars,
                   listenerVars, pipeVars, chain, puts, pcA, pcB, pcC, heldB,
                   heldC, ghostVars>>

\* _stream_from_ollama: the last provider failed, or one failed and the flag
\* is set; unless the flag is set the apology is put, the response is marked
\* as an error, the pill is put
A_Exhausted(r) ==
    /\ Started(r)
    /\ pcA[r] = "stream"
    /\ prov[r] = Len(chain) \/ cancel
    /\ IF ~cancel
       THEN /\ sq' = sq \o <<APOLOGY(r), END>>
            /\ full_response' = ErrorText
            /\ emitted' = IF r = run THEN Append(emitted, APOLOGY(r)) ELSE emitted
            /\ puts' = IF r = run THEN puts \o <<APOLOGY(r), END>> ELSE puts
       ELSE UNCHANGED <<sq, full_response, emitted, puts>>
    /\ attempts' = IF r = run THEN Ended(attempts, "failed") ELSE attempts
    /\ pcA' = [pcA EXCEPT ![r] = "done"]
    /\ nA' = [nA EXCEPT ![r] = 0]
    /\ UNCHANGED <<textVars, running, events, capVars, memVars, mainVars,
                   listenerVars, cancel, aq, run, chain, prov, pcB, pcC,
                   heldB, heldC, played, failed, clean, nInt, dead>>

\* ============================================================ Stage B
\* _synthesize_sentences: sentence_queue.get returned an item
B_Get(r) ==
    /\ Started(r)
    /\ pcB[r] = "loop"
    /\ sq # << >>
    /\ sq' = Tail(sq)
    /\ LET item == Head(sq)
       IN  CASE item = END \/ cancel ->
                   /\ aq' = Append(aq, END)
                   /\ pcB' = [pcB EXCEPT ![r] = "done"]
                   /\ UNCHANGED heldB
             [] item # END /\ ~cancel /\ IsRoute(item) ->
                   /\ aq' = aq \o <<item, END>>
                   /\ pcB' = [pcB EXCEPT ![r] = "done"]
                   /\ UNCHANGED heldB
             [] item # END /\ ~cancel /\ ~IsRoute(item) /\ ~tts_enabled ->
                   /\ aq' = Append(aq, SKIP)
                   /\ UNCHANGED <<pcB, heldB>>
             [] OTHER ->
                   /\ heldB' = [heldB EXCEPT ![r] = item]
                   /\ pcB' = [pcB EXCEPT ![r] = "synth"]
                   /\ UNCHANGED aq
    /\ UNCHANGED <<textVars, running, events, capVars, memVars, provVars,
                   mainVars, listenerVars, cancel, full_response, run, pcA,
                   pcC, nA, heldC, ghostVars>>

\* a plausible slip: what _synthesize_one returned is put without a look
synth_puts_unchecked(ok, flag) == ~flag

\* _synthesize_sentences: if audio_data and not self.cancel.is_set()
synth_puts(ok, flag) == ok /\ ~flag

\* _synthesize_one returned: audio (ok) or nothing (both engines failed);
\* the audio is put unless the flag is set
B_Synth(r) ==
    /\ Started(r)
    /\ pcB[r] = "synth"
    /\ \E ok \in BOOLEAN :
          /\ aq' = IF synth_puts(ok, cancel) THEN Append(aq, heldB[r]) ELSE aq
          /\ failed' = IF ok THEN failed ELSE failed \cup {heldB[r]}
          /\ dead' = IF synth_puts(ok, cancel) /\ r \in Interrupted
                     THEN dead \cup {heldB[r]}
                     ELSE dead
    /\ heldB' = [heldB EXCEPT ![r] = NONE]
    /\ pcB' = [pcB EXCEPT ![r] = "loop"]
    /\ UNCHANGED <<textVars, running, events, capVars, memVars, provVars,
                   mainVars, listenerVars, cancel, sq, full_response, run,
                   pcA, pcC, nA, heldC, emitted, played, clean, nInt>>

\* _synthesize_sentences: the flag is seen at the head of the loop
B_Cancelled(r) ==
    /\ Started(r)
    /\ pcB[r] = "loop"
    /\ cancel
    /\ aq' = Append(aq, END)
    /\ pcB' = [pcB EXCEPT ![r] = "done"]
    /\ UNCHANGED <<textVars, running, events, capVars, memVars, provVars,
                   mainVars, listenerVars, cancel, sq, full_response, run,
                   pcA, pcC, nA, heldB, heldC, ghostVars>>

\* ============================================================ Stage C
\* a plausible slip: the routing sentinel is not told from audio
play_checks_noRoute(item, flag) == item # END /\ ~flag

\* _play_audio_chunks: what lets a dequeued item through to playback
play_checks(item, flag) ==
    item # END /\ ~flag /\ ~IsRoute(item)

\* _play_audio_chunks: audio_queue.get returned an item
C_Get(r) ==
    /\ Started(r)
    /\ pcC[r] = "loop"
    /\ aq # << >>
    /\ aq' = Tail(aq)
    /\ LET item == Head(aq)
       IN  IF ~play_checks(item, cancel)
           THEN /\ pcC' = [pcC EXCEPT ![r] = "done"]
                /\ UNCHANGED heldC
           ELSE IF item = SKIP
           THEN UNCHANGED <<pcC, heldC>>
           ELSE /\ heldC' = [heldC EXCEPT ![r] = item]
                /\ pcC' = [pcC EXCEPT ![r] = "play"]
    /\ UNCHANGED <<textVars, running, events, capVars, memVars, provVars,
                   mainVars, listenerVars, cancel, sq, full_response, run,
                   pcA, pcB, nA, heldB, ghostVars>>

\* _play_audio_chunks: sd.play / afplay starts
C_PlayStart(r) ==
    /\ Started(r)
    /\ pcC[r] = "play"
    /\ played' = Append(played, heldC[r])
    /\ pcC' = [pcC EXCEPT ![r] = "playing"]
    /\ UNCHANGED <<textVars, running, events, capVars, memVars, provVars,
                   mainVars, listenerVars, pipeVars, pcA, pcB, nA, heldB,
                   heldC, emitted, failed, clean, nInt, dead>>

\* _play_audio_chunks: the blocking playback returns
C_PlayEnd(r) ==
    /\ Started(r)
    /\ pcC[r] = "playing"
    /\ heldC' = [heldC EXCEPT ![r] = NONE]
    /\ pcC' = [pcC EXCEPT ![r] = "loop"]
    /\ UNCHANGED <<textVars, running, events, capVars, memVars, provVars,
                   mainVars, listenerVars, pipeVars, pcA, pcB, nA, heldB,
                   ghostVars>>

\* _play_audio_chunks: the flag is seen at the head of the loop
C_Cancelled(r) ==
    /\ Started(r)
    /\ pcC[r] = "loop"
    /\ cancel
    /\ pcC' = [pcC EXCEPT ![r] = "done"]
    /\ UNCHANGED <<textVars, running, events, capVars, memVars, provVars,
                   mainVars, listenerVars, pipeVars, pcA, pcB, nA, heldB,
                   heldC, ghostVars>>

\* ============================================================ Spec
Listener == PTT_Press \/ Int_Set \/ Int_Drain \/ Int_Put \/ PTT_Notify

Main ==
    \/ Main_Wake \/ Main_NoSpeech \/ Main_Captured \/ Main_NoText
    \/ Main_VoiceCommand \/ Main_Speaking(MaxRuns) \/ Main_HandleTurn
    \/ PipelineRun_Start \/ Main_JoinFinished \/ Main_JoinTimeout
    \/ Main_PostRoute \/ Main_PostReply \/ Main_Bridge \/ Main_Agent
    \/ Main_Respond

StageA(r) == A_Emit(r) \/ A_End(r) \/ A_Cancelled(r) \/ A_Route(r) \/ A_Exhausted(r)
StageB(r) == B_Get(r) \/ B_Synth(r) \/ B_Cancelled(r)
StageC(r) == C_Get(r) \/ C_PlayStart(r) \/ C_PlayEnd(r) \/ C_Cancelled(r)

Next ==
    \/ Listener
    \/ Main
    \/ \E r \in Runs : StageA(r) \/ StageB(r) \/ StageC(r)

Spec == Init /\ [][Next]_vars

\* ---------------------------------------------------------- SpecTurns
\* Ordinary turns one after the other: the user presses only when the
\* daemon is idle, speaks an ordinary request every time, the model
\* answers with sentences, and nobody interrupts.  Fetching and synthesis
\* end well within the join timeout; the playback of a long reply may not.
PTT_PressIdle == state = "IDLE" /\ PTT_Press

Main_JoinTimeoutPlayback ==
    /\ mpc = "joinC"
    /\ pcC[run] = "playing"
    /\ Main_JoinTimeout

MainTurns ==
    \/ Main_Wake \/ Main_Captured \/ Main_Speaking(TurnRuns) \/ Main_HandleTurn
    \/ PipelineRun_Start \/ Main_JoinFinished \/ Main_JoinTimeoutPlayback
    \/ Main_PostReply

StagesTurns(r) ==
    \/ A_Emit(r) \/ A_End(r)
    \/ B_Get(r) \/ B_Synth(r)
    \/ C_Get(r) \/ C_PlayStart(r) \/ C_PlayEnd(r)

NextTurns ==
    \/ PTT_PressIdle
    \/ MainTurns
    \/ \E r \in Runs : StagesTurns(r)

SpecTurns == Init /\ [][NextTurns]_vars

\* ------------------------------------------------------------ SpecMem
\* ConversationMemory.__init__ / _load
InitMem ==
    /\ store \in LoadedStores
    /\ turns = store
    /\ writable \in BOOLEAN
    /\ hist = << >>
    /\ ops = 0
    /\ memop = NoOp
    /\ DaemonInit
    /\ TextIdle

MemAddUser ==
    /\ ops < MaxOps
    /\ turns' = add_user(turns, UserText(1))
    /\ store' = save(turns', store, writable)
    /\ ops' = ops + 1
    /\ memop' = [op |-> "add_user", before |-> turns]
    /\ writable' \in BOOLEAN
    /\ UNCHANGED <<textVars, running, events, capVars, hist, daemonVars>>

MemAddAssistant ==
    /\ ops < MaxOps
    /\ turns' = add_assistant(turns, UserText(1))
    /\ store' = save(turns', store, writable)
    /\ ops' = ops + 1
    /\ memop' = [op |-> "add_assistant", before |-> turns]
    /\ writable' \in BOOLEAN
    /\ UNCHANGED <<textVars, running, events, capVars, hist, daemonVars>>

MemClear ==
    /\ ops < MaxOps
    /\ turns' = clear(turns)
    /\ store' = save(turns', store, writable)
    /\ ops' = ops + 1
    /\ memop' = [op |-> "clear", before |-> turns]
    /\ writable' \in BOOLEAN
    /\ UNCHANGED <<textVars, running, events, capVars, hist, daemonVars>>

MemForgetLast ==
    /\ ops < MaxOps
    /\ turns' = forget_last(turns)
    /\ store' = save(turns', store, writable)
    /\ ops' = ops + 1
    /\ memop' = [op |-> "forget_last", before |-> turns]
    /\ writable' \in BOOLEAN
    /\ UNCHANGED <<textVars, running, events, capVars, hist, daemonVars>>

NextMem == MemAddUser \/ MemAddAssistant \/ MemClear \/ MemForgetLast

SpecMem == InitMem /\ [][NextMem]_vars

\* ------------------------------------------------------- SpecMessages
\* The memory operations and get_messages applied to a history that was
\* reloaded from the durable store; _handle_turn's add_user followed by
\* get_messages is one step, as both happen on the main thread.

\* the text of jarvis-system-prompt.md, or the built-in prompt
SYSTEM_PROMPT == << <<0, -7>> >>

\* a plausible slip: the turns are returned as they are
get_messages_noPreamble(ts) == ts

\* ConversationMemory.get_messages
get_messages(ts) == <<Turn("system", SYSTEM_PROMPT)>> \o ts

\* get_messages is called
Msg_Get ==
    /\ ops < MaxOps
    /\ ops' = ops + 1
    /\ memop' = [op |-> "get_messages", before |-> turns,
                 messages |-> get_messages(turns)]
    /\ UNCHANGED <<textVars, running, events, capVars, turns, store,
                   writable, hist, daemonVars>>

\* _handle_turn up to pipeline.run(messages)
Msg_HandleTurn ==
    /\ ops < MaxOps
    /\ \E text \in Texts :
          /\ turns' = add_user(turns, text)
          /\ memop' = [op |-> "handle_turn", before |-> turns, text |-> text,
                       messages |-> get_messages(turns')]
    /\ store' = save(turns', store, writable)
    /\ ops' = ops + 1
    /\ writable' \in BOOLEAN
    /\ UNCHANGED <<textVars, running, events, capVars, hist, daemonVars>>

NextMessages ==
    \/ Msg_Get \/ Msg_HandleTurn
    \/ MemAddAssistant \/ MemClear \/ MemForgetLast

SpecMessages == InitMem /\ [][NextMessages]_vars

\* ----------------------------------------------------- SpecUtterances
\* The memory of a daemon started without a history file, over the
\* utterances it handles: each is a voice command or goes to _handle_turn,
\* whose pipeline run returns a reply (whole, or the part accumulated when
\* it was interrupted), nothing, the error mark or a route marker, and
\* whose specialist, if it is routed, answers or not.  An exception in a
\* turn leaves what the turn had written by then: the case of no reply, or
\* of a command that changes nothing.
MaxUtterances == 4

\* what pipeline.run may return
Responses == { << >>, ErrorText, RouteText, <<Sentence(1, 1)>> }

\* a plausible slip: the reply is recorded, the utterance is not
handle_turn_replyOnly(ts, text, resp, out) ==
    IF is_route(resp)
    THEN IF out # "empty" THEN add_assistant(ts, RoutedText(out)) ELSE ts
    ELSE IF resp # << >> /\ ~is_error(resp) THEN add_assistant(ts, resp) ELSE ts

\* _handle_turn and _handle_routing: the turns they leave
handle_turn(ts, text, resp, out) ==
    LET asked == add_user(ts, text)
    IN  IF is_route(resp)
        THEN IF out # "empty" THEN add_assistant(asked, RoutedText(out))
                              ELSE asked
        ELSE IF resp # << >> /\ ~is_error(resp) THEN add_assistant(asked, resp)
                                               ELSE asked

InitUtterances ==
    /\ turns = << >>
    /\ store = << >>
    /\ writable \in BOOLEAN
    /\ hist = << >>
    /\ ops = 0
    /\ memop = NoOp
    /\ DaemonInit
    /\ TextIdle

\* an utterance that is no voice command: _handle_turn
Utt_Turn ==
    /\ ops < MaxUtterances
    /\ \E text \in Texts, resp \in Responses, out \in AgentOutcomes :
          /\ turns' = handle_turn(turns, text, resp, out)
          /\ memop' = [op |-> "turn", before |-> turns, text |-> text]
    /\ store' = save(turns', store, writable)
    /\ ops' = ops + 1
    /\ UNCHANGED <<textVars, running, events, capVars, writable, hist,
                   daemonVars>>

\* an utterance that is a voice command: _handle_voice_command
Utt_Command ==
    /\ ops < MaxUtterances
    /\ \E command \in VoiceCommands :
          /\ turns' = handle_voice_command(command, turns)
          /\ store' = IF command \in {"clear", "forget"}
                       THEN save(turns', store, writable)
                       ELSE store
          /\ memop' = [op |-> command, before |-> turns]
    /\ ops' = ops + 1
    /\ UNCHANGED <<textVars, running, events, capVars, writable, hist,
                   daemonVars>>

NextUtterances == Utt_Turn \/ Utt_Command

SpecUtterances == InitUtterances /\ [][NextUtterances]_vars

\* ---------------------------------------------------------- SpecPairs
InitPairs ==
    /\ turns = << >>
    /\ store = << >>
    /\ writable \in BOOLEAN
    /\ hist = << >>
    /\ ops = 0
    /\ memop = NoOp
    /\ DaemonInit
    /\ TextIdle

PairUser ==
    /\ Len(hist) % 2 = 0
    /\ Len(hist) < 2 * (MAX_TURNS + PairsExtra)
    /\ \E text \in Texts :
          /\ turns' = add_user(turns, text)
          /\ hist' = Append(hist, Turn("user", text))
    /\ store' = save(turns', store, writable)
    /\ writable' \in BOOLEAN
    /\ UNCHANGED <<textVars, running, events, capVars, ops, memop,
                   daemonVars>>

PairAssistant ==
    /\ Len(hist) % 2 = 1
    /\ \E text \in Texts :
          /\ turns' = add_assistant(turns, text)
          /\ hist' = Append(hist, Turn("assistant", text))
    /\ store' = save(turns', store, writable)
    /\ writable' \in BOOLEAN
    /\ UNCHANGED <<textVars, running, events, capVars, ops, memop,
                   daemonVars>>

NextPairs == PairUser \/ PairAssistant

SpecPairs == InitPairs /\ [][NextPairs]_vars

\* ------------------------------------------------------- SpecProviders
\* One turn of the daemon that nobody interrupts, under every
\* llm-providers.json with at most MaxProviders entries in
\* defaults.voiceAgent.fallbackChain.  A provider of the file is its
\* position in fallbackChain (its id), whether the environment holds its
\* API key, and its "compatible" field.
MaxProviders == 2

ProviderFiles ==
    UNION { { [i \in 1..n |-> [id |-> i, apiKey |-> f[i][1], compatible |-> f[i][2]]] :
                  f \in [1..n -> BOOLEAN \X {"openai", "google"}] } :
            n \in 0..MaxProviders }

\* a plausible slip: the check of the API key is left out
load_llm_providers_anyKey(file) == file

\* load_llm_providers: the providers of fallbackChain in order, without
\* those whose API key is not set
load_llm_providers(file) == SelectSeq(file, LAMBDA p : p.apiKey)

InitProviders ==
    /\ turns = << >>
    /\ store = << >>
    /\ writable = TRUE
    /\ hist = << >>
    /\ ops = 0
    /\ memop = NoOp
    /\ \E file \in ProviderFiles : DaemonInitWith(load_llm_providers(file))
    /\ TextIdle

MainProviders ==
    \/ Main_Wake \/ Main_Captured \/ Main_Speaking(MaxRuns) \/ Main_HandleTurn
    \/ PipelineRun_Start \/ Main_JoinFinished
    \/ Main_PostRoute \/ Main_PostReply \/ Main_Bridge \/ Main_Agent
    \/ Main_Respond

StagesProviders(r) ==
    \/ A_Emit(r) \/ A_End(r) \/ A_Route(r) \/ A_Fail(r) \/ A_Exhausted(r)
    \/ B_Get(r) \/ B_Synth(r)
    \/ C_Get(r) \/ C_PlayStart(r) \/ C_PlayEnd(r)

NextProviders ==
    \/ PTT_PressIdle
    \/ MainProviders
    \/ \E r \in Runs : StagesProviders(r)

SpecProviders == InitProviders /\ [][NextProviders]_vars

\* ------------------------------------------------------- SpecInterrupt
\* One turn of the daemon with at most MaxInterruptPress presses, under the
\* scheduling the threads get: a thread that can take a step takes one.
\* The main thread's joins return (each has a timeout).  Stage A moves on:
\* its HTTP read yields a line, ends, or fails by its timeout.  Stage B and
\* Stage C move on from everything but their queue.get: a synthesis and a
\* playback end, and a get that finds nothing gives up after a second and
\* is back at the head of the loop.  That an item arrives on a queue is not
\* assumed.
MaxInterruptPress == 2

PTT_PressFew == presses < MaxInterruptPress /\ PTT_Press

MainInterrupt ==
    \/ Main_Wake \/ Main_NoSpeech \/ Main_Captured \/ Main_NoText
    \/ Main_Speaking(MaxRuns) \/ Main_HandleTurn
    \/ PipelineRun_Start \/ Main_JoinFinished \/ Main_JoinTimeout
    \/ Main_PostRoute \/ Main_PostReply \/ Main_Bridge \/ Main_Agent
    \/ Main_Respond

NextInterrupt ==
    \/ PTT_PressFew \/ Int_Set \/ Int_Drain \/ Int_Put \/ PTT_Notify
    \/ MainInterrupt
    \/ \E r \in Runs : StageA(r) \/ StageB(r) \/ StageC(r)

FairInterrupt ==
    /\ WF_vars(Main_JoinFinished \/ Main_JoinTimeout)
    /\ \A r \in Runs :
          /\ WF_vars(StageA(r))
          /\ WF_vars(B_Synth(r) \/ B_Cancelled(r))
          /\ WF_vars(C_PlayStart(r) \/ C_PlayEnd(r) \/ C_Cancelled(r))

SpecInterrupt == Init /\ [][NextInterrupt]_vars /\ FairInterrupt

\* ------------------------------------------------------------ SpecLoop
\* The main loop statement by statement around its wait, with the signal
\* handler, which Python runs in the main thread between two bytecodes of
\* the loop, and with the "except Exception" of the loop.  The main thread
\* always gets to take its next step: every call it makes returns (the wait
\* and the joins have timeouts).  The user presses only when the daemon is
\* idle.

\* _handle_signal: SIGINT or SIGTERM is delivered
Signal ==
    /\ running
    /\ running' = FALSE
    /\ pttEvent' = TRUE
    /\ UNCHANGED <<textVars, memVars, events, capVars, provVars, state, mpc,
                   response, agent_response, listenerVars, pipeVars,
                   stageVars, ghostVars>>

\* "while self.running" or "if not self.running: break" finds the flag
\* cleared: the loop is left
Loop_Exit ==
    /\ mpc = "wait"
    /\ ~running
    /\ mpc' = "exited"
    /\ UNCHANGED <<textVars, memVars, loopVars, capVars, provVars, state,
                   pttEvent, response, agent_response, listenerVars,
                   pipeVars, stageVars, ghostVars>>

\* self._ptt_event.wait(timeout=1.0) returned, by the event or by the
\* timeout, and "if not self.running" found the flag set
Loop_Woke ==
    /\ mpc = "wait"
    /\ running
    /\ mpc' = "woke"
    /\ UNCHANGED <<textVars, memVars, loopVars, capVars, provVars, state,
                   pttEvent, response, agent_response, listenerVars,
                   pipeVars, stageVars, ghostVars>>

\* "if not self._ptt_event.is_set(): continue"
Loop_Continue ==
    /\ mpc = "woke"
    /\ ~pttEvent
    /\ mpc' = "wait"
    /\ UNCHANGED <<textVars, memVars, loopVars, capVars, provVars, state,
                   pttEvent, response, agent_response, listenerVars,
                   pipeVars, stageVars, ghostVars>>

\* the event is set: clear it, enter RECORDING
Loop_Wake == mpc = "woke" /\ Wake

\* where the main thread is inside the try block of a turn
TurnPcs ==
    { "listen", "transcribe", "turn", "run", "joinA", "joinB", "joinC",
      "post", "bridge", "agent", "respond" }

\* a plausible slip: the handler leaves the state as it is
except_state_keeps(current) == current

\* "except Exception": self._set_state(State.IDLE)
except_state(current) == "IDLE"

\* a statement of the turn raises an Exception: it is logged, the state is
\* set to IDLE and, half a second later, the loop goes on
Main_Error ==
    /\ mpc \in TurnPcs
    /\ state' = except_state(state)
    /\ mpc' = "wait"
    /\ TurnReturns
    /\ UNCHANGED <<textVars, memVars, loopVars, capVars, chain, prov,
                   pttEvent, listenerVars, pipeVars, stageVars, nInt, dead>>

MainLoop ==
    \/ Loop_Exit \/ Loop_Woke \/ Loop_Continue \/ Loop_Wake
    \/ Main_NoSpeech \/ Main_Captured \/ Main_NoText \/ Main_VoiceCommand
    \/ Main_Speaking(MaxRuns) \/ Main_HandleTurn
    \/ PipelineRun_Start \/ Main_JoinFinished \/ Main_JoinTimeout
    \/ Main_PostRoute \/ Main_PostReply \/ Main_Bridge \/ Main_Agent
    \/ Main_Respond \/ Main_Error

StagesLoop(r) ==
    \/ A_Emit(r) \/ A_End(r) \/ A_Route(r) \/ A_Exhausted(r)
    \/ B_Get(r) \/ B_Synth(r)
    \/ C_Get(r) \/ C_PlayStart(r) \/ C_PlayEnd(r)

NextLoop ==
    \/ PTT_PressIdle
    \/ Signal
    \/ MainLoop
    \/ \E r \in Runs : StagesLoop(r)

SpecLoop == Init /\ [][NextLoop]_vars /\ WF_vars(MainLoop)

\* --------------------------------------------------------- SpecCapture
\* The daemon from a press in IDLE to the end of listen_for_speech, frame
\* by frame, every frame being speech or not; the microphone may fail at
\* any frame and SIGINT or SIGTERM may arrive at any moment.  The audio
\* stream delivers its frames: the loop moves on.

\* one round of the loop: a frame is read and classified
Cap_Frame ==
    /\ mpc = "listen"
    /\ cpc = "loop"
    /\ running
    /\ Len(heard) < max_frames
    /\ \E is_speech \in BOOLEAN :
          LET loc == capture_frame(
                         Locals(frames, silent_frames, speech_detected, FALSE),
                         Len(heard) + 1, is_speech)
          IN  /\ heard' = Append(heard, is_speech)
              /\ frames' = loc.frames
              /\ silent_frames' = loc.silent_frames
              /\ speech_detected' = loc.speech_detected
              /\ cpc' = IF loc.break THEN "after" ELSE "loop"
    /\ UNCHANGED <<textVars, memVars, mainVars, listenerVars, pipeVars,
                   stageVars, ghostVars, provVars, loopVars, audio>>

\* range(max_frames) is used up
Cap_Exhausted ==
    /\ mpc = "listen"
    /\ cpc = "loop"
    /\ Len(heard) = max_frames
    /\ cpc' = "after"
    /\ UNCHANGED <<textVars, memVars, mainVars, listenerVars, pipeVars,
                   stageVars, ghostVars, provVars, loopVars, heard, frames,
                   silent_frames, speech_detected, audio>>

\* sd.PortAudioError when the stream is opened or read: return None
Cap_Abort ==
    /\ mpc = "listen"
    /\ cpc = "loop"
    /\ audio' = "none"
    /\ cpc' = "aborted"
    /\ UNCHANGED <<textVars, memVars, mainVars, listenerVars, pipeVars,
                   stageVars, ghostVars, provVars, loopVars, heard, frames,
                   silent_frames, speech_detected>>

\* "if not self.running: return None" at the head of a round
Cap_Stopped ==
    /\ mpc = "listen"
    /\ cpc = "loop"
    /\ ~running
    /\ Len(heard) < max_frames
    /\ audio' = "none"
    /\ cpc' = "aborted"
    /\ UNCHANGED <<textVars, memVars, mainVars, listenerVars, pipeVars,
                   stageVars, ghostVars, provVars, loopVars, heard, frames,
                   silent_frames, speech_detected>>

\* the statements after the loop
Cap_Return ==
    /\ mpc = "listen"
    /\ cpc = "after"
    /\ audio' = capture_result(speech_detected, frames)
    /\ cpc' = "done"
    /\ UNCHANGED <<textVars, memVars, mainVars, listenerVars, pipeVars,
                   stageVars, ghostVars, provVars, loopVars, heard, frames,
                   silent_frames, speech_detected>>

\* run(): audio is None
Cap_NoSpeech == cpc \in {"done", "aborted"} /\ audio = "none" /\ Main_NoSpeech

\* run(): audio is not None
Cap_Captured == cpc = "done" /\ audio = "utterance" /\ Main_Captured

Capture ==
    Cap_Frame \/ Cap_Exhausted \/ Cap_Abort \/ Cap_Stopped \/ Cap_Return

LoopHead == Loop_Exit \/ Loop_Woke \/ Loop_Continue \/ Loop_Wake

NextCapture ==
    \/ PTT_PressIdle
    \/ Signal
    \/ LoopHead
    \/ Capture
    \/ Cap_NoSpeech \/ Cap_Captured

SpecCapture == Init /\ [][NextCapture]_vars /\ WF_vars(Capture)

\* the memory of a daemon started without a history file
MemInit ==
    /\ turns = << >>
    /\ store = << >>
    /\ writable = TRUE
    /\ hist = << >>
    /\ ops = 0
    /\ memop = NoOp

InitRoute ==
    /\ MemInit
    /\ DaemonInit
    /\ \E r \in Replies, w \in 1..MaxWidth : TextInit(r, w, << >>)

\* the size of the next fragment
Fragment == IF width < Len(reply) - fed THEN width ELSE Len(reply) - fed

\* _try_ollama_stream / _try_cloud_stream: one round of the token loop
T_Token ==
    /\ tpc = "stream"
    /\ fed < Len(reply)
    /\ LET buf == token_buffer \o SubSeq(reply, fed + 1, fed + Fragment)
           m == process_token_buffer(buf, route_check_done)
           e == emit_sentences(buf)
       IN  /\ fed' = fed + Fragment
           /\ IF m.found
              THEN /\ full_text' = RouteResponse(m)
                   /\ textq' = textq \o <<RouteSentinel(m), PILL>>
                   /\ tpc' = "returned"
                   /\ UNCHANGED <<token_buffer, route_check_done>>
              ELSE /\ route_check_done' =
                          (route_check_done \/ Len(buf) > ROUTE_DETECTION_CHARS)
                   /\ textq' = textq \o e.put
                   /\ full_text' = full_text \o Spoken(e.put)
                   /\ token_buffer' = e.rest
                   /\ tpc' = tpc
    /\ UNCHANGED <<memVars, daemonVars, reply, width, routing, split_text,
                   split_result, split_done>>

\* _try_ollama_stream / _try_cloud_stream: the stream is over; _flush_buffer,
\* the poison pill
T_End ==
    /\ tpc = "stream"
    /\ fed = Len(reply)
    /\ textq' = textq \o flush_buffer(token_buffer) \o <<PILL>>
    /\ full_text' = full_text \o
                        (IF flush_buffer(token_buffer) = << >> THEN << >>
                         ELSE flush_buffer(token_buffer)[1])
    /\ tpc' = "returned"
    /\ UNCHANGED <<memVars, daemonVars, reply, width, fed, token_buffer,
                   route_check_done, routing, split_text, split_result,
                   split_done>>

\* "[error:"
ErrorMark == <<"[", "e", "r", "r", "o", "r", ":">>

\* str.startswith
startswith(s, prefix) ==
    Len(s) >= Len(prefix) /\ SubSeq(s, 1, Len(prefix)) = prefix

\* AGENT_NAMES.get(agent_id, agent_id), for the agents of the replies
AgentName(agent_id) ==
    IF agent_id = SubSeq(RouteReply, 8, 19)
    THEN <<"D", "e", "a", "l", " ", "S", "c", "a", "n", "n", "e", "r">>
    ELSE agent_id

\* what send_to_agent may return: nothing, or a text ("On it.")
AgentAnswers == { << >>, <<"O", "n", " ", "i", "t", ".">> }

\* _handle_routing: f"[Routed to {name}] {spoken}"
routed_memory_text(agent_id, spoken) ==
    <<"[", "R", "o", "u", "t", "e", "d", " ", "t", "o", " ">>
        \o AgentName(agent_id) \o <<"]", " ">> \o spoken

\* _handle_turn after run() returned full_response: a route goes to
\* _handle_routing, which records the specialist's answer if there is one
\* (an answer of the model is far below the 150 words of the truncation);
\* any other response is recorded unless it is empty or an error mark
T_HandleTurn ==
    /\ tpc = "returned"
    /\ routing' = handle_turn_route(full_text, UserSaid)
    /\ IF routing'.found
       THEN \E answer \in AgentAnswers :
               turns' = IF answer # << >>
                        THEN add_assistant(turns,
                                 routed_memory_text(routing'.agent,
                                                    format_for_speech(answer)))
                        ELSE turns
       ELSE turns' = IF full_text # << >> /\ ~startswith(full_text, ErrorMark)
                     THEN add_assistant(turns, full_text)
                     ELSE turns
    /\ store' = IF turns' # turns THEN save(turns', store, writable) ELSE store
    /\ tpc' = "handled"
    /\ UNCHANGED <<writable, hist, ops, memop, daemonVars, reply, width, fed,
                   token_buffer, route_check_done, textq, full_text,
                   split_text, split_result, split_done>>

NextRoute == T_Token \/ T_End \/ T_HandleTurn

SpecRoute == InitRoute /\ [][NextRoute]_vars

\* ------------------------------------------------------------ SpecSplit
\* split_into_sentences applied to every text of at most MaxWords words of
\* a pool, the words a single space apart, and to the two texts below.
MaxWords == 3

WordPool ==
    { <<"D", "r", ".">>, <<"n", "o", "?">>, <<"H", "e">>,
    <<"l", "e", "f", "t", ".">>, <<"1", "2", ".">>,
    <<"3", ".", "5", "p", "m", ".">>, <<"1", ",", "2", ".">>, <<"5">>,
    <<".", ".", ".">>, <<"O", "k", "!">> }

\* "The total is 12. It increased."
TotalText == <<
    "T", "h", "e", " ", "t", "o", "t", "a", "l", " ", "i", "s", " ", "1",
    "2", ".", " ", "I", "t", " ", "i", "n", "c", "r", "e", "a", "s", "e",
    "d", "." >>

\* "Dr. Smith arrived at 3.5pm. He left."
SmithText == <<
    "D", "r", ".", " ", "S", "m", "i", "t", "h", " ", "a", "r", "r", "i",
    "v", "e", "d", " ", "a", "t", " ", "3", ".", "5", "p", "m", ".", " ",
    "H", "e", " ", "l", "e", "f", "t", "." >>

\* "  Ok!\t He\nleft. ", the words apart by more than a single space
SpacedText == <<
    " ", " ", "O", "k", "!", "\t", " ", "H", "e", "\n", "l", "e", "f", "t",
    ".", " " >>

\* a text of whitespace only
BlankText == << " ", "\n" >>

SplitInputs ==
    { join(ws) : ws \in UNION { [1..n -> WordPool] : n \in 0..MaxWords } }
        \cup {TotalText, SmithText, SpacedText, BlankText}

InitSplit ==
    /\ MemInit
    /\ DaemonInit
    /\ \E t \in SplitInputs : TextInit(<< >>, 0, t)

Split_Apply ==
    /\ ~split_done
    /\ split_result' = split_into_sentences(split_text)
    /\ split_done' = TRUE
    /\ UNCHANGED <<memVars, daemonVars, reply, width, fed, token_buffer,
                   route_check_done, tpc, textq, full_text, routing,
                   split_text>>

NextSplit == Split_Apply

SpecSplit == InitSplit /\ [][NextSplit]_vars

\* ============================================================ claims

\* what the current run's Stage A put, less what failed to synthesize
Synthesized == SelectSeq(emitted, LAMBDA x : x \notin failed)
\* the current run's sentences whose playback started, in that order
PlayedOfRun == SelectSeq(played, LAMBDA x : x[1] = run)
\* run() of the current run has returned with its three threads finished,
\* and no playback thread holds a buffer it has yet to play
RunCompleted ==
    /\ mpc = "post"
    /\ pcA[run] = "done" /\ pcB[run] = "done" /\ pcC[run] = "done"
    /\ \A r \in Runs : pcC[r] \in {"loop", "done"}

\* C1: for every completed, non-cancelled pipeline run, the sentences that
\* reach playback are exactly the sentences Stage A put on the sentence
\* queue, in the same order, nothing reordered or duplicated; a sentence
\* whose synthesis failed is the only permitted omission.
C1_PlayedIsEmittedInOrder ==
    (RunCompleted /\ clean /\ nInt[run] = 0) => PlayedOfRun = Synthesized

\* C2: if interrupt() sets the cancel flag at time T during a run, then
\* from T until run() returns no playback starts, and no buffer that was
\* queued at T, or that Stage B put after T, is ever played.
C2_NoPlaybackAfterCancel ==
    [][ /\ (run \in Interrupted /\ mpc \in JoinPcs) => played' = played
        /\ SeqRange(played') \cap dead' = {} ]_vars

\* C3: interrupt() invoked while the state is SPEAKING takes effect on the
\* current run at every interleaving with _handle_turn / run(): once it
\* has set the flag, the flag is set for as long as the run of that turn
\* is in progress.
C3_InterruptTakesEffect ==
    (ptt = "flagged" /\ mpc \in JoinPcs) => cancel

\* the steps of interrupt()
InterruptStep == ipc \in {"set", "drain", "put"} /\ ipc' # ipc

C5_NoStageOutlivesItsRun ==
    /\ state = "IDLE" => \A r \in Runs : ~Alive(r)
    /\ \A r \in Runs : r < run => ~Alive(r)

\* C6: capture and the pipeline never execute concurrently: while the
\* state is RECORDING no stage thread of any run is executing.
C6_NoStageWhileRecording ==
    state = "RECORDING" => \A r \in Runs : ~Alive(r)

\* C7: after a press received in SPEAKING, once its interrupt() has set
\* the flag and for as long as the flag stays set, the orchestrator speaks
\* no further sentence of the turn (bridge phrase, specialist's answer)
\* and starts no specialist request before RECORDING is entered.
C7_NothingStartedAfterInterrupt ==
    [][ (ptt = "flagged" /\ cancel) =>
            /\ ~(mpc = "post" /\ mpc' = "bridge")
            /\ ~(mpc = "bridge" /\ mpc' = "agent")
            /\ ~(mpc = "agent" /\ mpc' = "respond") ]_vars

\* C8: a press read in RECORDING or PROCESSING is ignored: it leaves the
\* state, the pending-activation event, the cancel flag and both queues
\* as they are and starts nothing that could set the event later; a press
\* read in IDLE sets the event, and the main loop leaves its wait only
\* with the event set, only for RECORDING.
C8_PressIgnoredOrActivates ==
    [][ /\ (presses' # presses /\ state \in {"RECORDING", "PROCESSING"}) =>
              /\ UNCHANGED <<state, mpc, pttEvent, cancel, sq, aq>>
              /\ ipc' = "idle"
        /\ (presses' # presses /\ state = "IDLE") => (pttEvent' /\ ipc' = "idle")
        /\ (mpc = "wait" /\ mpc' # "wait") =>
              (pttEvent /\ ~pttEvent' /\ state' = "RECORDING") ]_vars

\* C8 witness: a press was ignored during capture or processing, the event
\* is still clear and the listener is back at rest
C8_Witness ==
    /\ ptt = "ignored"
    /\ state \in {"RECORDING", "PROCESSING"}
    /\ ~pttEvent
    /\ ipc = "idle"
    /\ presses >= 2

\* C9: the memory length invariant len(turns) <= 2*maxTurns holds after
\* every memory operation (add_user, add_assistant, clear, forget_last),
\* also when the history was reloaded from the durable store at start-up.
C9_LengthAfterEveryOperation ==
    ops > 0 => Len(turns) <= 2 * MAX_TURNS

\* how many Turns forget_last is to remove from the tail of b
ForgetCount(b) ==
    LET n == Len(b)
    IN  IF n = 0 THEN 0
        ELSE IF b[n].role = "assistant"
             THEN (IF n >= 2 /\ b[n - 1].role = "user" THEN 2 ELSE 1)
             ELSE 1

\* C11: forget_last removes the trailing assistant Turn if there is one,
\* then the new trailing Turn if it is a user Turn: 0, 1 or 2 Turns, from
\* the tail only (a trailing user Turn alone is the only one removed); all
\* earlier Turns stay, unchanged and in order.
C11_ForgetLastRemovesTail ==
    memop.op = "forget_last" =>
        LET b == memop.before
        IN  /\ ForgetCount(b) \in 0..2
            /\ turns = SubSeq(b, 1, Len(b) - ForgetCount(b))

\* C11 witness: forget_last has removed an assistant Turn and the user Turn
\* before it, and earlier Turns remain
C11_Witness ==
    /\ memop.op = "forget_last"
    /\ Len(memop.before) = Len(turns) + 2
    /\ Len(turns) >= 1

\* C10: starting from an empty memory, after N > maxTurns user/assistant
\* pairs were appended alternately, memory holds exactly the most recent
\* maxTurns pairs, in their original order, starting with a user Turn.
C10_KeepsMostRecentPairs ==
    (Len(hist) % 2 = 0 /\ Len(hist) > 2 * MAX_TURNS) =>
        /\ Len(turns) = 2 * MAX_TURNS
        /\ turns = SubSeq(hist, Len(hist) - 2 * MAX_TURNS + 1, Len(hist))
        /\ turns[1].role = "user"
        /\ \A i \in 1..Len(turns) :
              turns[i].role = (IF i % 2 = 1 THEN "user" ELSE "assistant")

\* C10 witness: one pair more than maxTurns was appended, the oldest evicted
C10_Witness ==
    /\ Len(hist) = 2 * (MAX_TURNS + 1)
    /\ turns # hist
    /\ turns[1] = hist[3]

\* C12: when send_to_agent failed by timeout or HTTP error, the rest of
\* the turn adds no assistant Turn to memory: what the turn leaves in memory
\* is what add_user left.
C12_NoAssistantTurnOnAgentFailure ==
    [][ (mpc = "respond" /\ agent_response \in {"timeout", "http_error"}) =>
            turns' = turns ]_vars

\* ------------------------------------------------------------------ C13
AttemptIds == [i \in 1..Len(attempts) |-> attempts[i].id]

ChainIds(n) == [i \in 1..n |-> chain[i].id]

\* C13: the providers of a run are tried in the configured order, Ollama
\* first and then the fallback chain without a gap and without a repeat;
\* the chain holds no provider without an API key; a provider is tried only
\* after every earlier one failed, so none is tried after a success; and a
\* failure ends the run's attempts only when the chain is used up.
C13_ProvidersInOrder ==
    attempts # << >> =>
        /\ AttemptIds = <<0>> \o ChainIds(prov[run])
        /\ \A i \in 1..Len(attempts), j \in 1..Len(attempts) :
               i < j => AttemptIds[i] < AttemptIds[j]
        /\ \A i \in 1..Len(chain) : chain[i].apiKey
        /\ \A i \in 1..(Len(attempts) - 1) : attempts[i].result = "failed"
        /\ Last(attempts).result = "failed" =>
               pcA[run] = "done" /\ prov[run] = Len(chain)

\* the only fallback of the file that holds a key is its second one: it is
\* tried right after Ollama failed in the middle of its stream, and answers
C13_Witness ==
    /\ Len(attempts) = 2
    /\ attempts[1].sent > 0
    /\ attempts[2].id = 2
    /\ attempts[2].result = "ok"

\* ------------------------------------------------------------------ C14
\* the sentences 1..n of the reply the provider at position p streams in run r
Reply(r, p, n) == [k \in 1..n |-> Sentence(r, p * NumSent + k)]

\* C14: the chain holds one fallback; Ollama refused the connection (it
\* failed before it emitted anything) and the fallback answered.  Then the
\* fallback was the second and last provider tried (one failover), what
\* Stage A put on sentence_queue is the fallback's sentences in order and
\* then one poison pill, without the apology, and full_response is the
\* fallback's reply, not the error mark.
C14_FallbackCompletesRun ==
    ( /\ Len(chain) = 1
      /\ attempts # << >>
      /\ attempts[1].result = "failed"
      /\ attempts[1].sent = 0
      /\ Last(attempts).result = "ok" ) =>
        /\ Len(attempts) = 2
        /\ attempts[2].id = chain[1].id
        /\ puts = Append(Reply(run, 1, attempts[2].sent), END)
        /\ full_response = Reply(run, 1, attempts[2].sent)
        /\ ~is_error(full_response)
        /\ APOLOGY(run) \notin SeqRange(puts)

\* the fallback's reply of NumSent sentences has been played to its end
C14_Witness ==
    /\ Len(chain) = 1
    /\ Len(attempts) = 2
    /\ attempts[1].result = "failed"
    /\ attempts[1].sent = 0
    /\ attempts[2].result = "ok"
    /\ attempts[2].sent = NumSent
    /\ played = Reply(run, 1, NumSent)
    /\ mpc = "post"

\* ------------------------------------------------------------------ C15
\* every provider of the run was tried and every one failed
AllProvidersFailed ==
    /\ Len(attempts) = Len(chain) + 1
    /\ \A i \in 1..Len(attempts) : attempts[i].result = "failed"

Count(s, x) == Cardinality({ i \in 1..Len(s) : s[i] = x })

\* C15: when run() has returned from a run in which every provider failed,
\* Stage A has put the apology exactly once, as its last sentence, and the
\* poison pill exactly once, right after it; if no provider got as far as a
\* sentence these two are all it put; the returned response is the error
\* mark; and the step _handle_turn takes on it leaves the memory as it was.
C15_ExhaustionApologises ==
    [][ (mpc = "post" /\ AllProvidersFailed) =>
            /\ Len(puts) >= 2
            /\ SubSeq(puts, Len(puts) - 1, Len(puts)) = <<APOLOGY(run), END>>
            /\ Count(puts, APOLOGY(run)) = 1
            /\ Count(puts, END) = 1
            /\ (\A i \in 1..Len(attempts) : attempts[i].sent = 0) =>
                   puts = <<APOLOGY(run), END>>
            /\ response = ErrorText
            /\ is_error(response)
            /\ turns' = turns ]_vars

\* no fallback holds a key, Ollama is unreachable, the apology was spoken
C15_Witness ==
    /\ mpc = "post"
    /\ chain = << >>
    /\ AllProvidersFailed
    /\ attempts[1].sent = 0
    /\ played = <<APOLOGY(run)>>
    /\ Len(turns) = 1

\* ------------------------------------------------------------------ C16
\* C16: whatever the width of the fragments in which the reply
\* "[ROUTE:deal-scanner] find me a laundromat" arrives, _handle_routing is
\* called with the agent "deal-scanner" and the query "find me a
\* laundromat", and the routing sentinel is the first item put on
\* sentence_queue, the poison pill the second.
C16_RouteParsedForEveryChunking ==
    (reply = RouteReply /\ tpc = "handled") =>
        /\ routing.found
        /\ routing.agent = SubSeq(RouteReply, 8, 19)
        /\ routing.query = SubSeq(RouteReply, 22, 41)
        /\ Len(textq) = 2
        /\ IsSentinel(textq[1])
        /\ textq[2] = PILL

\* ------------------------------------------------------------------ C17
\* C17: a routing sentinel is put only if fewer than ROUTE_DETECTION_CHARS
\* + 50 characters of the reply had been received before the fragment that
\* completed the match; a marker that arrives later is ordinary text.
C17_NoRouteAfterWindow ==
    (\E i \in 1..Len(textq) : IsSentinel(textq[i])) =>
        fed - width < ROUTE_DETECTION_CHARS + 50

\* ------------------------------------------------------------------ C18
\* C18: split_into_sentences("The total is 12. It increased.") returns
\* ["The total is 12.", "It increased."]
C18_TotalTextSplitsAtNumber ==
    (split_done /\ split_text = TotalText) =>
        split_result = << SubSeq(TotalText, 1, 16), SubSeq(TotalText, 18, 30) >>

\* ------------------------------------------------------------------ C19
\* the token without its trailing . ! ?, in lower case
StrippedForm(word) == lower(rstrip(word, EndPunct))

\* guard (1): an abbreviation
GuardAbbreviation(words, i) == StrippedForm(words[i]) \in ABBREVIATIONS

\* guard (2): a period before a token that starts with a digit
GuardDecimal(words, i) ==
    /\ Last(words[i]) = "."
    /\ i < Len(words)
    /\ Head(words[i + 1]) \in Digits

\* guard (3) as worded: a period after nothing but digits, commas and periods
GuardNumericAsWorded(words, i) ==
    /\ Last(words[i]) = "."
    /\ \A k \in 1..Len(StrippedForm(words[i])) :
           StrippedForm(words[i])[k] \in Digits \cup {",", "."}

\* guard (3) with a digit required
GuardNumeric(words, i) ==
    /\ GuardNumericAsWorded(words, i)
    /\ \E k \in 1..Len(StrippedForm(words[i])) : StrippedForm(words[i])[k] \in Digits

BoundaryAsWorded(words, i) ==
    /\ Last(words[i]) \in EndPunct
    /\ ~GuardAbbreviation(words, i)
    /\ ~GuardDecimal(words, i)
    /\ ~GuardNumericAsWorded(words, i)

Boundary(words, i) ==
    /\ Last(words[i]) \in EndPunct
    /\ ~GuardAbbreviation(words, i)
    /\ ~GuardDecimal(words, i)
    /\ ~GuardNumeric(words, i)

\* the k-th smallest element of a set of numbers
NthOf(cuts, k) == CHOOSE c \in cuts : Cardinality({ d \in cuts : d < c }) = k - 1

\* the words cut after every word that IsBoundary holds of, each piece joined
Segmented(words, IsBoundary(_, _)) ==
    LET cuts == {0, Len(words)} \cup { i \in 1..Len(words) : IsBoundary(words, i) }
    IN  [k \in 1..(Cardinality(cuts) - 1) |->
            join(SubSeq(words, NthOf(cuts, k) + 1, NthOf(cuts, k + 1)))]

C20_VoiceCommandIsLocal ==
    [][ Main_VoiceCommand =>
            /\ state = "PROCESSING"
            /\ state' = "IDLE"
            /\ pipeVars' = pipeVars
            /\ stageVars' = stageVars
            /\ provVars' = provVars
            /\ Len(turns') <= Len(turns)
            /\ turns' = SubSeq(turns, 1, Len(turns'))
            /\ voice_cmd[StartOverText] = "clear"
            /\ Main_VoiceCommandOn(StartOverText) => turns' = << >> ]_vars

\* the memory that held the turn of the first run is empty again, in
\* memory and on disk, and the daemon is idle: a voice command emptied it
C20_Witness ==
    /\ run = 1
    /\ state = "IDLE"
    /\ mpc = "wait"
    /\ turns = << >>
    /\ store = << >>

\* ------------------------------------------------------------------ C21
\* C21: once interrupt() has set the flag during a run, the three stage
\* threads of that run finish and run() returns, whether or not any further
\* item ever arrives on sentence_queue or audio_queue: no stage waits on an
\* empty queue for ever.
C21_InterruptedRunTerminates ==
    \A r \in Runs : (nInt[r] > 0) ~> (~Alive(r) /\ mpc \notin JoinPcs)

\* an interrupted run is over and run() has returned while the pill that
\* interrupt() put on sentence_queue is still there: Stage B ended without it
C21_Witness ==
    /\ run >= 1
    /\ nInt[run] > 0
    /\ ~Alive(run)
    /\ mpc = "post"
    /\ sq = <<END>>
    /\ ipc = "idle"

\* ------------------------------------------------------------------ C22
\* C22: the state machine has no stuck state: from RECORDING, PROCESSING
\* or SPEAKING the state always becomes IDLE again; whenever the main loop
\* is between two turns the state is IDLE; and once the shutdown signal was
\* delivered the loop is left, and RECORDING is not entered any more.
C22_NoStuckStateAndCleanShutdown ==
    /\ [](state # "IDLE" => <>(state = "IDLE"))
    /\ [](mpc \in {"wait", "woke", "exited"} => state = "IDLE")
    /\ [](~running => <>(mpc = "exited"))
    /\ [][~running => ~(state = "IDLE" /\ state' = "RECORDING")]_vars

\* ------------------------------------------------------------------ C23
\* C23: an Exception raised by a statement of a turn, wherever the turn is
\* and whatever the state, is caught by the main loop: the step leaves the
\* state IDLE, the loop back at its wait and the daemon running; and from
\* then on, as at any time, an activation event that is set leads to
\* RECORDING unless the shutdown signal comes first.
C23_NoFailureIsFatal ==
    /\ [](mpc \in TurnPcs => ENABLED Main_Error)
    /\ [][Main_Error =>
             /\ state' = "IDLE"
             /\ mpc' = "wait"
             /\ running' = running
             /\ pttEvent' = pttEvent]_vars
    /\ []((pttEvent /\ running) => <>(state = "RECORDING" \/ ~running))

\* add_user was done and an error kept the pipeline from starting; the
\* daemon has since entered RECORDING again
C23_Witness ==
    /\ state = "RECORDING"
    /\ run = 0
    /\ Len(turns) = 1

\* ------------------------------------------------------------------ C24
\* C24: transcribe returns None when Whisper failed and when its text is
\* empty or blank; the step the main loop takes on None leads from
\* PROCESSING to IDLE and back to the wait, leaves the memory and the
\* history file as they are, starts no pipeline run and no stage thread,
\* makes no provider attempt and no specialist request.
C24_NoTextAbortsOnlyTheTurn ==
    [][ Main_NoText =>
            /\ \A result \in {WhisperFailed, << >>, <<" ", "\n">>} :
                   transcribed[result] = None
            /\ state = "PROCESSING"
            /\ state' = "IDLE"
            /\ mpc' = "wait"
            /\ memVars' = memVars
            /\ pipeVars' = pipeVars
            /\ stageVars' = stageVars
            /\ provVars' = provVars
            /\ "request" \notin SeqRange(events')
            /\ running' = running ]_vars

\* the second utterance of the session was not understood: the memory still
\* holds the turn before it, and the daemon is idle
C24_Witness ==
    /\ events = <<"didnt_catch">>
    /\ state = "IDLE"
    /\ mpc = "wait"
    /\ run = 1
    /\ Len(turns) = 2

\* ------------------------------------------------------------------ C25
\* the turns a memory operation leaves in memory
Mutated(op, ts) ==
    CASE op = "add_user" -> add_user(ts, UserText(1))
      [] op = "add_assistant" -> add_assistant(ts, UserText(1))
      [] op = "clear" -> clear(ts)
      [] op = "forget_last" -> forget_last(ts)

SpeechAt(h) == { i \in 1..Len(h) : h[i] }

FirstSpeech(h) == CHOOSE i \in SpeechAt(h) : \A j \in SpeechAt(h) : i <= j

LastSpeech(h) == CHOOSE i \in SpeechAt(h) : \A j \in SpeechAt(h) : j <= i

\* the non-speech frames read since the last speech frame
TrailingSilence(h) == IF SpeechAt(h) = {} THEN 0 ELSE Len(h) - LastSpeech(h)

\* every frame from the first speech frame on
FromFirstSpeech(h) ==
    IF SpeechAt(h) = {} THEN << >>
    ELSE [k \in 1..(Len(h) - FirstSpeech(h) + 1) |-> FirstSpeech(h) + k - 1]

\* C26: listen_for_speech accumulates nothing before the first speech frame
\* and every frame from it on; its counter is the number of non-speech
\* frames since the last speech frame, zero after a speech frame; while it
\* reads, that number is below silence_limit and at most max_frames frames
\* were read; when its loop is left (other than by the return for a
\* microphone error or for a shutdown) that number has just reached
\* silence_limit or max_frames frames were read; and it always returns.
C26_CaptureDelimitsTheUtterance ==
    /\ [](/\ frames = FromFirstSpeech(heard)
          /\ silent_frames = TrailingSilence(heard)
          /\ speech_detected <=> SpeechAt(heard) # {}
          /\ Len(heard) <= max_frames
          /\ cpc = "loop" => TrailingSilence(heard) < silence_limit
          /\ cpc \in {"after", "done"} =>
                \/ TrailingSilence(heard) = silence_limit
                \/ Len(heard) = max_frames /\ TrailingSilence(heard) < silence_limit)
    /\ [](mpc = "listen" => <>(cpc \in {"done", "aborted"}))

\* silence, speech, a pause shorter than the limit, speech again, then
\* silence up to the limit: six frames are returned
C26_Witness ==
    /\ cpc = "done"
    /\ heard = <<FALSE, TRUE, FALSE, TRUE, TRUE, FALSE, FALSE>>
    /\ frames = <<2, 3, 4, 5, 6, 7>>
    /\ audio = "utterance"

\* ------------------------------------------------------------------ C27
\* C27: when the loop of listen_for_speech has run to its end, it returns
\* the utterance if and only if a speech frame was seen and at least
\* MIN_FRAMES frames were accumulated, and None otherwise; on None the main
\* loop goes from RECORDING to IDLE and back to its wait: no transcription,
\* the memory and the history file untouched, no pipeline run, no provider
\* attempt, no specialist request; on an utterance it goes to PROCESSING.
C27_UtteranceIffSpeechAndMinFrames ==
    /\ [](cpc = "done" =>
             (audio = "utterance" <=>
                  (SpeechAt(heard) # {} /\ Len(frames) >= MIN_FRAMES)))
    /\ [](cpc = "aborted" => audio = "none")
    /\ [][ (mpc = "listen" /\ mpc' # "listen") =>
              IF audio = "none"
              THEN /\ state = "RECORDING"
                   /\ state' = "IDLE"
                   /\ mpc' = "wait"
                   /\ memVars' = memVars
                   /\ pipeVars' = pipeVars
                   /\ stageVars' = stageVars
                   /\ provVars' = provVars
                   /\ events' = events
              ELSE /\ state' = "PROCESSING"
                   /\ mpc' = "transcribe" ]_vars

\* speech was heard, but only three frames were accumulated before the
\* silence limit: nothing was returned and the daemon is idle again
C27_Witness ==
    /\ state = "IDLE"
    /\ mpc = "wait"
    /\ cpc = "done"
    /\ speech_detected
    /\ Len(frames) = 3
    /\ audio = "none"

\* ------------------------------------------------------------------ C28
\* Stage B's step from _synthesize_one, in which both engines failed
SynthesisFails(r) ==
    /\ pcB[r] = "synth"
    /\ pcB'[r] # "synth"
    /\ heldB[r] \in failed'

\* where sentence x stands in what Stage A emitted
EmittedAt(x) == CHOOSE i \in 1..Len(emitted) : emitted[i] = x

\* C28: in a run that is not cancelled, the step in which the synthesis of
\* a sentence fails puts nothing on audio_queue, puts the sentence back on
\* no queue (no retry) and leaves Stage B at the head of its loop; and when
\* the run has completed, the failed sentence was never played, while the
\* sentences Stage A emitted after it were each synthesized (played, or
\* failed themselves) and the played ones were played in emission order.
C28_SynthesisFailureSkipsOneSentence ==
    /\ [][ \A r \in Runs : SynthesisFails(r) =>
              /\ aq' = aq
              /\ sq' = sq
              /\ pcB'[r] = "loop"
              /\ heldB'[r] = NONE
              /\ played' = played ]_vars
    /\ [](RunCompleted =>
            \A f \in failed :
              /\ f \notin SeqRange(played)
              /\ \A i \in 1..Len(emitted) :
                    i > EmittedAt(f) =>
                       emitted[i] \in SeqRange(played) \cup failed
              /\ \A i, j \in 1..Len(played) :
                    i < j => EmittedAt(played[i]) < EmittedAt(played[j]))

\* the first sentence of the reply failed in synthesis, the second was
\* played, and run() has returned
C28_Witness ==
    /\ RunCompleted
    /\ emitted = <<Sentence(run, 1), Sentence(run, 2)>>
    /\ failed = {Sentence(run, 1)}
    /\ played = <<Sentence(run, 2)>>

\* ------------------------------------------------------------------ C29
\* the step in which _handle_routing speaks the specialist's answer and
\* records it
RoutedAnswer == mpc = "respond" /\ mpc' # "respond" /\ agent_response = "ok"

\* C29: in a routed turn the main thread speaks the bridge phrase and then
\* sends the request, so that while the request is out and while its answer
\* is handled exactly these two things have happened, in this order; when
\* the specialist answered, the step that handles the answer speaks it and
\* then appends one Turn to the memory, an assistant Turn holding the text
\* tagged with the agent, and nothing else happens in the turn: one bridge
\* phrase, one request, one answer spoken, one memory write.
C29_RoutedTurnOrder ==
    /\ [](mpc \in {"agent", "respond"} => events = <<"bridge", "request">>)
    /\ [](Count(events, "request") <= 1)
    /\ [][ RoutedAnswer =>
              /\ events' = <<"bridge", "request", "answer", "memory">>
              /\ turns' = Append(turns, Turn("assistant", RoutedText("ok")))
              /\ Count(turns', Turn("assistant", RoutedText("ok"))) = 1
              /\ state' = "IDLE" ]_vars

\* the routed turn is over: the memory holds the utterance and the tagged
\* answer of the specialist
C29_Witness ==
    /\ mpc = "wait"
    /\ events = <<"bridge", "request", "answer", "memory">>
    /\ turns = <<Turn("user", UserText(1)),
                 Turn("assistant", RoutedText("ok"))>>

\* ------------------------------------------------------------------ C30
\* run() of the current run is between its start and the end of the turn,
\* and its Stage A has returned
StageAReturned ==
    /\ mpc \in JoinPcs \cup {"post", "bridge", "agent", "respond"}
    /\ pcA[run] = "done"

\* the items Stage A put before its last one are sentences of the reply
SentencesThenLast(n) ==
    \A i \in 1..(Len(puts) - n) : puts[i] # END /\ ~IsRoute(puts[i])

\* C30: in a run that is not cancelled, Stage A never puts a second poison
\* pill and never puts anything after the pill; when it has returned it
\* has put exactly one pill, as its last item, whichever way it left: the
\* stream of Ollama or of a fallback ended (sentences, then the pill), a
\* route marker was detected (the sentinel, then the pill), every provider
\* failed (the apology, then the pill).
C30_OnePillAndItIsLast ==
    /\ [](Count(puts, END) <= 1)
    /\ [](END \in SeqRange(puts) => Last(puts) = END /\ pcA[run] = "done")
    /\ [][ (Count(puts, END) > 0) => (puts' = puts \/ puts' = << >>) ]_vars
    /\ [](StageAReturned =>
            /\ Count(puts, END) = 1
            /\ Last(puts) = END
            /\ Last(attempts).result \in {"ok", "route", "failed"}
            /\ Last(attempts).result = "ok" => SentencesThenLast(1)
            /\ Last(attempts).result = "route" =>
                  /\ puts[Len(puts) - 1] = ROUTE(run)
                  /\ SentencesThenLast(2)
            /\ Last(attempts).result = "failed" =>
                  /\ puts[Len(puts) - 1] = APOLOGY(run)
                  /\ Len(attempts) = Len(chain) + 1)

\* Ollama failed, the fallback's reply began with a route marker: Stage A
\* put the sentinel and the pill and returned
C30_Witness ==
    /\ StageAReturned
    /\ Len(attempts) = 2
    /\ attempts[1].result = "failed"
    /\ attempts[2].result = "route"
    /\ puts = <<ROUTE(run), END>>

\* ------------------------------------------------------------------ C31
\* Stage B takes the item at the head of sentence_queue
BDequeues(item) == sq # << >> /\ Head(sq) = item /\ sq' = Tail(sq)

\* Stage C takes the item at the head of audio_queue
CDequeues(item) == aq # << >> /\ Head(aq) = item /\ aq' = Tail(aq)

\* where item x stands in what Stage A put
PutAt(x) == CHOOSE i \in 1..Len(puts) : puts[i] = x

C32_MessagesArePromptThenTurns ==
    /\ [](memop.op \in {"get_messages", "handle_turn"} =>
            /\ Len(memop.messages) = Len(turns) + 1
            /\ memop.messages[1] = Turn("system", SYSTEM_PROMPT)
            /\ \A i \in 1..Len(turns) : memop.messages[i + 1] = turns[i])
    /\ [][ (ops' = ops + 1 /\ memop'.op = "get_messages") =>
              /\ turns' = turns
              /\ store' = store ]_vars
    /\ [](memop.op = "handle_turn" =>
            Last(memop.messages) = Turn("user", memop.text))

\* the memory was full when the utterance came: the oldest turn was
\* dropped and the messages are the prompt and the 2*MAX_TURNS turns left
C32_Witness ==
    /\ memop.op = "handle_turn"
    /\ Len(memop.before) = 2 * MAX_TURNS
    /\ Len(memop.messages) = 2 * MAX_TURNS + 1
    /\ memop.messages[2] = memop.before[2]
    /\ memop.text = UserText(2)

\* ------------------------------------------------------------------ C33
\* Stage A put a routing sentinel on sentence_queue
SentinelPut == \E i \in 1..Len(textq) : IsSentinel(textq[i])

\* C33: when _handle_turn has looked at the response of a run, it calls
\* _handle_routing if and only if Stage A put a routing sentinel in that
\* run; a reply whose sentences Stage A put as ordinary text leads to no
\* specialist request.
C33_RoutedIffSentinel ==
    tpc = "handled" => (routing.found <=> SentinelPut)

\* the part of C33 that holds: a sentinel always leads to _handle_routing
C33_SentinelIsRouted ==
    (tpc = "handled" /\ SentinelPut) => routing.found

\* ------------------------------------------------------------------ C34
\* the provider attempt a sentence of the reply was streamed by: 0 for
\* Ollama, i for chain[i]
AttemptOf(s) == (s[2] - 1) \div NumSent

IsReplySentence(x) == x[1] >= 1 /\ x[2] >= 1

\* the attempts whose sentences are among the items of a sequence
AttemptsIn(items) ==
    { AttemptOf(items[i]) : i \in { j \in 1..Len(items) : IsReplySentence(items[j]) } }

\* C34: in a run, the sentences Stage A put on sentence_queue and the
\* sentences accumulated in full_response come from one provider attempt;
\* an attempt that failed has put and accumulated none.
C34_OneAttemptPerRun ==
    /\ Cardinality(AttemptsIn(puts)) <= 1
    /\ Cardinality(AttemptsIn(full_response)) <= 1
    /\ \A i \in 1..Len(attempts) :
          attempts[i].result = "failed" => attempts[i].sent = 0

\* ------------------------------------------------------------------ C35
\* the sentences Stage A put on sentence_queue, in order
SentencesPut == SelectSeq(textq, LAMBDA x : x # PILL /\ ~IsSentinel(x))

\* C35: when the stream of a run ended with Stage A having put sentences
\* and no routing sentinel, the step _handle_turn takes once run() has
\* returned appends exactly one Turn, an assistant Turn whose text is these
\* sentences, in order, a single space apart.
C35_TurnIsTheSentencesJoined ==
    [][ ( /\ tpc = "returned"
          /\ tpc' = "handled"
          /\ ~SentinelPut
          /\ SentencesPut # << >> ) =>
            turns' = Append(turns, Turn("assistant", join(SentencesPut))) ]_vars

\* the part of C35 that holds: full_response is the sentences put, a single
\* space apart, and unless _handle_turn takes it for a route it is what is
\* appended, once
C35_ResponseIsTheSentencesJoined ==
    /\ [](tpc = "returned" /\ ~SentinelPut => full_text = join(SentencesPut))
    /\ [][ ( /\ tpc = "returned"
             /\ tpc' = "handled"
             /\ ~SentinelPut
             /\ SentencesPut # << >>
             /\ ~routing'.found ) =>
               turns' = Append(turns, Turn("assistant", join(SentencesPut))) ]_vars

\* ------------------------------------------------------------------ C36
\* the Turn of role user for a text
Asked(text) == Turn("user", text)

\* C36: from an empty memory, whatever utterances are handled, every
\* assistant Turn of the memory is its first element or comes right after a
\* user Turn; an utterance that goes to _handle_turn appends one user Turn
\* and after it at most one assistant Turn (the oldest turns leaving when
\* the memory is full); a voice command appends nothing.
C36_NoAdjacentAssistantTurns ==
    /\ [](\A i \in 2..Len(turns) :
             turns[i].role = "assistant" => turns[i - 1].role = "user")
    /\ [][ (ops' = ops + 1 /\ memop'.op = "turn") =>
              \/ turns' = trim(Append(turns, Asked(memop'.text)))
              \/ /\ turns' # << >>
                 /\ Last(turns').role = "assistant"
                 /\ turns' = trim(turns \o <<Asked(memop'.text), Last(turns')>>) ]_vars
    /\ [][ (ops' = ops + 1 /\ memop'.op # "turn") =>
              /\ Len(turns') <= Len(turns)
              /\ turns' = SubSeq(turns, 1, Len(turns')) ]_vars

\* a turn without a reply, a turn with one, the command to forget, and a
\* routed turn: the memory holds the first utterance and the last exchange
C36_Witness ==
    /\ ops = 4
    /\ memop.op = "turn"
    /\ Len(memop.before) = 1
    /\ turns = <<Asked(UserText(1)), Asked(UserText(2)),
                 Turn("assistant", RoutedText("ok"))>>

\* ------------------------------------------------------------------ C37
\* the reply sentences among the items the current run's Stage A has put
ReplySentencesPut == SelectSeq(puts, IsReplySentence)

C38_RequestIsNotInterruptible ==
    /\ [](mpc = "bridge" => state = "SPEAKING")
    /\ [](mpc = "agent" => state = "PROCESSING")
    /\ [](mpc = "respond" => state = "SPEAKING")
    /\ [][ (mpc = "bridge" /\ mpc' # "bridge") => mpc' = "agent" ]_vars
    /\ [][ (mpc = "agent" /\ presses' = presses + 1) =>
              /\ pttEvent' = pttEvent
              /\ ipc' = "idle"
              /\ cancel' = cancel
              /\ mpc' = "agent"
              /\ state' = "PROCESSING" ]_vars
    /\ [][ (mpc = "agent" /\ mpc' # "agent") =>
              \/ mpc' = "respond" /\ agent_response' \in AgentOutcomes \ {"empty"}
              \/ mpc' = "wait" /\ events' = Append(events, "no_response") ]_vars

\* the request is under way and a press made during the turn was ignored
C38_Witness ==
    /\ mpc = "agent"
    /\ state = "PROCESSING"
    /\ events = <<"bridge", "request">>
    /\ presses = 2
    /\ ptt = "ignored"
    /\ ipc = "idle"
    /\ ~pttEvent

\* ------------------------------------------------------------------ C39
\* every stage thread of every other run has finished
OtherRunsOver ==
    \A r \in Runs : r # run =>
        pcA[r] = "done" /\ pcB[r] = "done" /\ pcC[r] = "done"

\* C39: run() starts with the flag cleared, two empty queues and an empty
\* accumulated response, whatever an interrupt() left there; a run that
\* started after an interrupt() of the same turn had completed, that no
\* later interrupt() touched and that has completed with no thread of
\* another run about, has played every sentence its Stage A put and Stage B
\* synthesized, in order.
C39_RunStartsAfresh ==
    /\ [][ run' = run + 1 =>
              /\ ~cancel'
              /\ sq' = << >>
              /\ aq' = << >>
              /\ full_response' = << >> ]_vars
    /\ []( ( /\ RunCompleted
             /\ OtherRunsOver
             /\ ptt = "flagged"
             /\ clean
             /\ nInt[run] = 0 ) =>
              /\ ~cancel
              /\ PlayedOfRun = Synthesized
              /\ Count(puts, END) <= 1 )

\* interrupt() ran from its first statement to its last between SPEAKING
\* being set and run() being entered; the run then streamed, synthesized
\* and played both sentences of its reply
C39_Witness ==
    /\ RunCompleted
    /\ ptt = "flagged"
    /\ clean
    /\ nInt[run] = 0
    /\ ipc = "idle"
    /\ pttEvent
    /\ ~cancel
    /\ played = <<Sentence(1, 1), Sentence(1, 2)>>
    /\ response = <<Sentence(1, 1), Sentence(1, 2)>>

\* ------------------------------------------------------------------ C40
\* C40: split_into_sentences loses and invents no text: the sentences it
\* returns, joined by single spaces, are the whitespace-separated tokens of
\* its argument joined by single spaces; no sentence is empty; and every
\* sentence but the last ends in '.', '!' or '?'.
C40_SplitKeepsTheText ==
    split_done =>
        /\ join(split_result) = join(split(split_text))
        /\ \A k \in 1..Len(split_result) : split_result[k] # << >>
        /\ \A k \in 1..(Len(split_result) - 1) :
              Last(split_result[k]) \in EndPunct

\* a text with irregular whitespace has been split in two, the words of
\* the second sentence a single space apart
C40_Witness ==
    /\ split_done
    /\ split_text = SpacedText
    /\ split_result = << <<"O", "k", "!">>,
                         <<"H", "e", " ", "l", "e", "f", "t", ".">> >>
====
